---- MODULE Spec2Model ----
(***************************************************************************)
(* A model of the NES core of senmu: the master clock of NesSystem, the    *)
(* MOS6502 fetch/execute loop with its interrupts, the NTSC2C02 frame      *)
(* clock and register file, and the CPU/PPU memory routers.                *)
(***************************************************************************)
EXTENDS Integers, Sequences, FiniteSets, TLC

(***************************************************************************)
(* Bounds of the model.                                                    *)
(***************************************************************************)
\* Most PPU ticks a behaviour of Spec performs (two frames and a bit).
MaxTicks == 178360
\* Most single cycle() calls the host makes before it switches to frames.
MaxWarmup == 1
\* Most reset() calls the host makes in one behaviour.
MaxResets == 1
\* Most cpu.cycle() calls a behaviour of SpecCpu performs.
MaxCpuCycles == 30
\* Most cpu.cycle() calls a behaviour of SpecStack performs.
MaxStackCycles == 74
\* Most irq() and nmi() calls the host makes in one behaviour.
MaxInterrupts == 1
\* Most cpu.cycle() calls a behaviour of SpecTiming performs.
MaxTimingCycles == 44
\* Most instructions a behaviour of SpecAlu executes.
MaxAluSteps == 3
\* Most instructions a behaviour of SpecRoundTrip executes.
MaxRoundTripSteps == 4
\* Most bus calls the host makes in a behaviour of SpecBus.
MaxBusCalls == 2
\* Most ppuBusWrite calls the host makes in a behaviour of SpecPpuBus.
MaxPpuCalls == 2
\* Most PPU ticks, and most reads of $2002, in a behaviour of SpecStatus.
MaxStatusTicks == 82190
MaxStatusReads == 2
\* Most calls the host makes in a behaviour of SpecReg.
MaxRegCalls == 5
\* Most step() calls the host makes in a behaviour of SpecEvenOdd.
MaxEmulateSteps == 12
\* Most calls the host makes in a behaviour of SpecToggle.
MaxToggleCalls == 5
\* Most calls the host makes on the controller in a behaviour.
MaxControllerCalls == 12
\* Most PPU ticks a behaviour of SpecNmi performs, and most writes to $2000.
MaxNmiTicks == 171530
MaxNmiEnables == 1

(***************************************************************************)
(* Bit arithmetic on bytes and words.                                      *)
(***************************************************************************)
Pow2(k) == 2 ^ k

Bit(x, k) == (x \div Pow2(k)) % 2

SetBit(x, k, b) == x - Bit(x, k) * Pow2(k) + (IF b THEN Pow2(k) ELSE 0)

RECURSIVE BitAndN(_, _, _)
BitAndN(a, b, n) ==
    IF n = 0 THEN 0
    ELSE (a % 2) * (b % 2) + 2 * BitAndN(a \div 2, b \div 2, n - 1)

BitAnd(a, b) == BitAndN(a, b, 16)

BitOr(a, b) == a + b - BitAnd(a, b)

BitXor(a, b) == a + b - 2 * BitAnd(a, b)

U8(x) == x % 256

U16(x) == x % 65536

\* static_cast<int8_t>(b)
Int8(b) == IF b >= 128 THEN b - 256 ELSE b

(***************************************************************************)
(* Program constants.                                                      *)
(***************************************************************************)
CYCLES_PER_SCANLINE == 341
SCANLINES_PER_FRAME == 262
STACK_PAGE == 256
\* enum Controller and two of the eight values of enum Button
P1 == 0
P2 == 1
ButtonA == 128
ButtonRight == 1
RAM_SIZE == 2048

CPU_RAM_START == 0
CPU_RAM_END == 8191
CPU_PPU_START == 8192
CPU_PPU_END == 16383
CPU_APU_START == 16384
CPU_APU_END == 16407
CPU_CARTRIDGE_START == 32768
CPU_CARTRIDGE_END == 65535

PPU_PATTERN_TABLE_START == 0
PPU_PATTERN_TABLE_END == 8191
PPU_NAME_TABLE_START == 8192
PPU_NAME_TABLE_END == 12287
PPU_PALETTE_START == 16128
PPU_PALETTE_END == 16383

\* bit positions of MOS6502::StatusFlags
C == 0
Z == 1
I == 2
D == 3
B == 4
U == 5
V == 6
N == 7

\* bit positions of the PPU register flags used by the code
IncrementMode == 2
GenerateNMI == 7
VerticalBlanking == 7

\* iNES::NtMirroring
HORIZONTAL == 0
VERTICAL == 1

(***************************************************************************)
(* The 256-entry opcode table: <<instruction, addressing mode, cycles>>    *)
(* of opcode k at position k + 1.                                          *)
(***************************************************************************)
opcodeLUT == <<
    <<"BRK","IMP",7>>, <<"ORA","IZX",6>>, <<"XXX","IMP",0>>, <<"SLO","IZX",8>>,
    <<"NOP","ZP0",3>>, <<"ORA","ZP0",3>>, <<"ASL","ZP0",5>>, <<"SLO","ZP0",5>>,
    <<"PHP","IMP",3>>, <<"ORA","IMM",2>>, <<"ASA","IMP",2>>, <<"XXX","IMP",0>>,
    <<"NOP","ABS",4>>, <<"ORA","ABS",4>>, <<"ASL","ABS",6>>, <<"SLO","ABS",6>>,
    <<"BPL","REL",2>>, <<"ORA","IZY",5>>, <<"XXX","IMP",0>>, <<"SLO","IZY",8>>,
    <<"NOP","ZPX",4>>, <<"ORA","ZPX",4>>, <<"ASL","ZPX",6>>, <<"SLO","ZPX",6>>,
    <<"CLC","IMP",2>>, <<"ORA","ABY",4>>, <<"NOP","IMP",2>>, <<"SLO","ABY",7>>,
    <<"NOP","ABX",4>>, <<"ORA","ABX",4>>, <<"ASL","ABX",7>>, <<"SLO","ABX",7>>,
    <<"JSR","ABS",6>>, <<"AND","IZX",6>>, <<"XXX","IMP",0>>, <<"RLA","IZX",8>>,
    <<"BIT","ZP0",3>>, <<"AND","ZP0",3>>, <<"ROL","ZP0",5>>, <<"RLA","ZP0",5>>,
    <<"PLP","IMP",4>>, <<"AND","IMM",2>>, <<"ROA","IMP",2>>, <<"XXX","IMP",0>>,
    <<"BIT","ABS",4>>, <<"AND","ABS",4>>, <<"ROL","ABS",6>>, <<"RLA","ABS",6>>,
    <<"BMI","REL",2>>, <<"AND","IZY",5>>, <<"XXX","IMP",0>>, <<"RLA","IZY",8>>,
    <<"NOP","ZPX",4>>, <<"AND","ZPX",4>>, <<"ROL","ZPX",6>>, <<"RLA","ZPX",6>>,
    <<"SEC","IMP",2>>, <<"AND","ABY",4>>, <<"NOP","IMP",2>>, <<"RLA","ABY",7>>,
    <<"NOP","ABX",4>>, <<"AND","ABX",4>>, <<"ROL","ABX",7>>, <<"RLA","ABX",7>>,
    <<"RTI","IMP",6>>, <<"EOR","IZX",6>>, <<"XXX","IMP",0>>, <<"SRE","IZX",8>>,
    <<"NOP","ZP0",3>>, <<"EOR","ZP0",3>>, <<"LSR","ZP0",5>>, <<"SRE","ZP0",5>>,
    <<"PHA","IMP",3>>, <<"EOR","IMM",2>>, <<"LSA","IMP",2>>, <<"XXX","IMP",0>>,
    <<"JMP","ABS",3>>, <<"EOR","ABS",4>>, <<"LSR","ABS",6>>, <<"SRE","ABS",6>>,
    <<"BVC","REL",2>>, <<"EOR","IZY",5>>, <<"XXX","IMP",0>>, <<"SRE","IZY",8>>,
    <<"NOP","ZPX",4>>, <<"EOR","ZPX",4>>, <<"LSR","ZPX",6>>, <<"SRE","ZPX",6>>,
    <<"CLI","IMP",2>>, <<"EOR","ABY",4>>, <<"NOP","IMP",2>>, <<"SRE","ABY",7>>,
    <<"NOP","ABX",4>>, <<"EOR","ABX",4>>, <<"LSR","ABX",7>>, <<"SRE","ABX",7>>,
    <<"RTS","IMP",6>>, <<"ADC","IZX",6>>, <<"XXX","IMP",0>>, <<"RRA","IZX",8>>,
    <<"NOP","ZP0",3>>, <<"ADC","ZP0",3>>, <<"ROR","ZP0",5>>, <<"RRA","ZP0",5>>,
    <<"PLA","IMP",4>>, <<"ADC","IMM",2>>, <<"RAA","IMP",2>>, <<"XXX","IMP",0>>,
    <<"JMP","IND",5>>, <<"ADC","ABS",4>>, <<"ROR","ABS",6>>, <<"RRA","ABS",6>>,
    <<"BVS","REL",2>>, <<"ADC","IZY",5>>, <<"XXX","IMP",0>>, <<"RRA","IZY",8>>,
    <<"NOP","ZPX",4>>, <<"ADC","ZPX",4>>, <<"ROR","ZPX",6>>, <<"RRA","ZPX",6>>,
    <<"SEI","IMP",2>>, <<"ADC","ABY",4>>, <<"NOP","IMP",2>>, <<"RRA","ABY",7>>,
    <<"NOP","ABX",4>>, <<"ADC","ABX",4>>, <<"ROR","ABX",7>>, <<"RRA","ABX",7>>,
    <<"NOP","IMM",2>>, <<"STA","IZX",6>>, <<"XXX","IMP",0>>, <<"SAX","IZX",6>>,
    <<"STY","ZP0",3>>, <<"STA","ZP0",3>>, <<"STX","ZP0",3>>, <<"SAX","ZP0",3>>,
    <<"DEY","IMP",2>>, <<"XXX","IMP",0>>, <<"TXA","IMP",2>>, <<"XXX","IMP",0>>,
    <<"STY","ABS",4>>, <<"STA","ABS",4>>, <<"STX","ABS",4>>, <<"SAX","ABS",4>>,
    <<"BCC","REL",2>>, <<"STA","IZY",6>>, <<"XXX","IMP",0>>, <<"XXX","IMP",0>>,
    <<"STY","ZPX",4>>, <<"STA","ZPX",4>>, <<"STX","ZPY",4>>, <<"SAX","ZPY",4>>,
    <<"TYA","IMP",2>>, <<"STA","ABY",5>>, <<"TXS","IMP",2>>, <<"XXX","IMP",0>>,
    <<"XXX","IMP",0>>, <<"STA","ABX",5>>, <<"XXX","IMP",0>>, <<"XXX","IMP",0>>,
    <<"LDY","IMM",2>>, <<"LDA","IZX",6>>, <<"LDX","IMM",2>>, <<"LAX","IZX",6>>,
    <<"LDY","ZP0",3>>, <<"LDA","ZP0",3>>, <<"LDX","ZP0",3>>, <<"LAX","ZP0",3>>,
    <<"TAY","IMP",2>>, <<"LDA","IMM",2>>, <<"TAX","IMP",2>>, <<"LAX","IMM",2>>,
    <<"LDY","ABS",4>>, <<"LDA","ABS",4>>, <<"LDX","ABS",4>>, <<"LAX","ABS",4>>,
    <<"BCS","REL",2>>, <<"LDA","IZY",5>>, <<"XXX","IMP",0>>, <<"LAX","IZY",5>>,
    <<"LDY","ZPX",4>>, <<"LDA","ZPX",4>>, <<"LDX","ZPY",4>>, <<"LAX","ZPY",4>>,
    <<"CLV","IMP",2>>, <<"LDA","ABY",4>>, <<"TSX","IMP",2>>, <<"XXX","IMP",0>>,
    <<"LDY","ABX",4>>, <<"LDA","ABX",4>>, <<"LDX","ABY",4>>, <<"LAX","ABY",4>>,
    <<"CPY","IMM",2>>, <<"CMP","IZX",6>>, <<"XXX","IMP",0>>, <<"DCP","IZX",8>>,
    <<"CPY","ZP0",3>>, <<"CMP","ZP0",3>>, <<"DEC","ZP0",5>>, <<"DCP","ZP0",5>>,
    <<"INY","IMP",2>>, <<"CMP","IMM",2>>, <<"DEX","IMP",2>>, <<"XXX","IMP",0>>,
    <<"CPY","ABS",4>>, <<"CMP","ABS",4>>, <<"DEC","ABS",6>>, <<"DCP","ABS",6>>,
    <<"BNE","REL",2>>, <<"CMP","IZY",5>>, <<"XXX","IMP",0>>, <<"DCP","IZY",8>>,
    <<"NOP","ZPX",4>>, <<"CMP","ZPX",4>>, <<"DEC","ZPX",6>>, <<"DCP","ZPX",6>>,
    <<"CLD","IMP",2>>, <<"CMP","ABY",4>>, <<"NOP","IMP",2>>, <<"DCP","ABY",7>>,
    <<"NOP","ABX",4>>, <<"CMP","ABX",4>>, <<"DEC","ABX",7>>, <<"DCP","ABX",7>>,
    <<"CPX","IMM",2>>, <<"SBC","IZX",6>>, <<"XXX","IMP",0>>, <<"ISC","IZX",8>>,
    <<"CPX","ZP0",3>>, <<"SBC","ZP0",3>>, <<"INC","ZP0",5>>, <<"ISC","ZP0",5>>,
    <<"INX","IMP",2>>, <<"SBC","IMM",2>>, <<"NOP","IMP",2>>, <<"SBC","IMM",2>>,
    <<"CPX","ABS",4>>, <<"SBC","ABS",4>>, <<"INC","ABS",6>>, <<"ISC","ABS",6>>,
    <<"BEQ","REL",2>>, <<"SBC","IZY",5>>, <<"XXX","IMP",0>>, <<"ISC","IZY",8>>,
    <<"NOP","ZPX",4>>, <<"SBC","ZPX",4>>, <<"INC","ZPX",6>>, <<"ISC","ZPX",6>>,
    <<"SED","IMP",2>>, <<"SBC","ABY",4>>, <<"NOP","IMP",2>>, <<"ISC","ABY",7>>,
    <<"NOP","ABX",4>>, <<"SBC","ABX",4>>, <<"INC","ABX",7>>, <<"ISC","ABX",7>>
>>

(***************************************************************************)
(* Cartridges.  A cartridge is the parsed iNES image: its bank count, its  *)
(* mirroring mode and its PRG-ROM, given by the bytes that are not zero.   *)
(* Place(o, bytes) lays a byte sequence at PRG offset o.                   *)
(***************************************************************************)
Place(o, bytes) == [k \in o .. (o + Len(bytes) - 1) |-> bytes[k - o + 1]]

\* NOP ; JMP $8000            (GenerateNMI stays 0)
RomIdle ==
    [nPrgRomBanks |-> 1, mirroring |-> HORIZONTAL,
     prgRom |-> Place(0, <<234, 76, 0, 128>>)
                @@ Place(16378, <<16, 128, 0, 128, 16, 128>>)
                @@ Place(16, <<64>>)]

\* LDA #$80 ; STA $2000 ; L: JMP L        NMI handler at $8010: RTI
RomNmiJmp ==
    [nPrgRomBanks |-> 1, mirroring |-> HORIZONTAL,
     prgRom |-> Place(0, <<169, 128, 141, 0, 32, 76, 5, 128>>)
                @@ Place(16378, <<16, 128, 0, 128, 16, 128>>)
                @@ Place(16, <<64>>)]

\* LDA #$80 ; STA $2000 ; L: INC $10 ; JMP L     NMI handler at $8010: RTI
RomNmiInc ==
    [nPrgRomBanks |-> 1, mirroring |-> VERTICAL,
     prgRom |-> Place(0, <<169, 128, 141, 0, 32, 230, 16, 76, 5, 128>>)
                @@ Place(16378, <<16, 128, 0, 128, 16, 128>>)
                @@ Place(16, <<64>>)]

\* reset vector $C000: NOP ; LDA #$05 ; STA $0000 ; AND $0000 ; BEQ +3 ;
\* JMP $C000 ; NOP ; JMP $C000
RomNop ==
    [nPrgRomBanks |-> 1, mirroring |-> HORIZONTAL,
     prgRom |-> Place(0, <<234, 169, 5, 141, 0, 0, 45, 0, 0, 240, 3,
                           76, 0, 192, 234, 76, 0, 192>>)
                @@ Place(16378, <<32, 192, 0, 192, 32, 192>>)
                @@ Place(32, <<64>>)]

\* NOP ; illegal opcode $02
RomTrap ==
    [nPrgRomBanks |-> 2, mirroring |-> HORIZONTAL,
     prgRom |-> Place(0, <<234, 2>>)
                @@ Place(32762, <<16, 128, 0, 128, 16, 128>>)]

\* L: LDA $2002 ; JMP L     (GenerateNMI stays 0)
RomPoll ==
    [nPrgRomBanks |-> 1, mirroring |-> VERTICAL,
     prgRom |-> Place(0, <<173, 2, 32, 76, 0, 128>>)
                @@ Place(16378, <<16, 128, 0, 128, 16, 128>>)
                @@ Place(16, <<64>>)]

\* bytes laid at CPU address a of a cartridge of two PRG banks
AtCpu(a, bytes) == Place(a - CPU_CARTRIDGE_START, bytes)

\* the three vectors at $FFFA..$FFFF
Vectors(nmi, reset, irq) ==
    AtCpu(65530, <<nmi % 256, nmi \div 256, reset % 256, reset \div 256,
                   irq % 256, irq \div 256>>)

\* $8000: LDX #sp ; TXS ; LDA #p ; PHA ; LDA #a ; PLP      (SP, P, A set)
\* $8009: PHA ; PLA ; PHP ; PLP ; JSR $8040 ; BRK ; NOP ; L: JMP L
\* $8040: RTS      $8050 (IRQ/BRK): RTI      $8060 (NMI): RTI
RomStack(sp, p, a) ==
    [nPrgRomBanks |-> 2, mirroring |-> HORIZONTAL,
     prgRom |-> AtCpu(32768, <<162, sp, 154, 169, p, 72, 169, a, 40,
                               72, 104, 8, 40, 32, 64, 128, 0, 234,
                               76, 18, 128>>)
                @@ AtCpu(32832, <<96>>)
                @@ AtCpu(32848, <<64>>)
                @@ AtCpu(32864, <<64>>)
                @@ Vectors(32864, 32768, 32848)]

\* the stack pointers, status bytes and accumulators the stack programs
\* are built with
StackPointers == {0, 1, 2, 253, 255}
StatusBytes == {0, 4, 16, 32, 48, 195, 251, 255}
Accumulators == {0, 90, 255}

StackRoms ==
    {RomStack(sp, p, a) :
        sp \in StackPointers, p \in StatusBytes, a \in Accumulators}

\* L: JMP L at CPU address a, when a lies in the cartridge
Loop(a) ==
    IF a >= CPU_CARTRIDGE_START THEN AtCpu(a, <<76, a % 256, a \div 256>>)
    ELSE <<>>

\* $8000: LDA #p ; PHA ; PLP ; JMP at        (P set)
\* at: the branch op with offset off; L: JMP L behind it and at its target
\* IRQ/BRK and NMI at $8010: L: JMP L
RomBranch(op, p, at, off) ==
    [nPrgRomBanks |-> 2, mirroring |-> HORIZONTAL,
     prgRom |-> AtCpu(32768, <<169, p, 72, 40, 76, at % 256, at \div 256>>)
                @@ AtCpu(at, <<op, off>>)
                @@ Loop(at + 2)
                @@ Loop(U16(at + 2 + Int8(off)))
                @@ Loop(32784)
                @@ Vectors(32784, 32768, 32784)]

\* $8000: LDA #op ; STA $02 ; LDA #off ; STA $03 ; LDA #p ; PHA ; PLP ;
\* JMP $0002        (the branch runs from RAM, at $0002)
RomBranchRam(op, p, off) ==
    [nPrgRomBanks |-> 2, mirroring |-> HORIZONTAL,
     prgRom |-> AtCpu(32768, <<169, op, 133, 2, 169, off, 133, 3,
                               169, p, 72, 40, 76, 2, 0>>)
                @@ Loop(32784)
                @@ Vectors(32784, 32768, 32784)]

\* the opcodes of BPL, BMI, BVC, BVS, BCC, BCS, BNE, BEQ
BranchOpcodes == {16, 48, 80, 112, 144, 176, 208, 240}

\* where the branch is laid and its offset: within a page, across a page
\* boundary forwards and backwards, onto the first and the last byte of a
\* page, and beyond $FFFF
BranchCases ==
    {<<33024, 5>>, <<33021, 5>>, <<33022, 5>>, <<33017, 5>>, <<33016, 5>>,
     <<33024, 248>>, <<33030, 248>>, <<33152, 128>>, <<33104, 127>>,
     <<33040, 128>>, <<65520, 127>>}

BranchStatus == {0, 1, 2, 64, 128, 255}

BranchRoms ==
    {RomBranch(op, p, c[1], c[2]) :
        op \in BranchOpcodes, p \in BranchStatus, c \in BranchCases}
    \cup {RomBranchRam(op, p, 248) :
              op \in BranchOpcodes, p \in BranchStatus}

\* $8000: LDX #idx ; LDY #idx ; LDA #<base ; STA $10 ; LDA #>base ; STA $11
\* $800C: the instruction of opcode opc on base,X  base,Y  or ($10),Y
\* followed by L: JMP L
RomIndexed(opc, base, idx) ==
    LET Code(inst) ==
            <<162, idx, 160, idx, 169, base % 256, 133, 16,
              169, base \div 256, 133, 17>> \o inst
        Lay(code) == AtCpu(32768, code) @@ Loop(32768 + Len(code))
    IN [nPrgRomBanks |-> 2, mirroring |-> HORIZONTAL,
        prgRom |-> Lay(Code(IF opcodeLUT[opc + 1][2] = "IZY"
                            THEN <<opc, 16>>
                            ELSE <<opc, base % 256, base \div 256>>))
                   @@ Loop(32832)
                   @@ Vectors(32832, 32768, 32832)]

\* the opcodes of the table whose mode is ABX, ABY or IZY
IndexedOpcodes ==
    {k \in 0 .. 255 : opcodeLUT[k + 1][2] \in {"ABX", "ABY", "IZY"}}

\* base address and index: no crossing, the last byte of the page, the
\* first of the next, a full index, and a sum beyond $FFFF
IndexCases ==
    {<<752, 0>>, <<752, 15>>, <<752, 16>>, <<752, 255>>, <<512, 255>>,
     <<65520, 16>>}

IndexedRoms ==
    {RomIndexed(opc, c[1], c[2]) : opc \in IndexedOpcodes, c \in IndexCases}

\* $8000: JMP (ptr)      with the words $9040 at $81FF/$8100 (and $A0 at
\* $8200), $9234 at $8120 and $9356 at $82FE
RomIndirect(ptr) ==
    [nPrgRomBanks |-> 2, mirroring |-> HORIZONTAL,
     prgRom |-> AtCpu(32768, <<108, ptr % 256, ptr \div 256>>)
                @@ AtCpu(33024, <<144>>)
                @@ AtCpu(33279, <<64, 160>>)
                @@ AtCpu(33056, <<52, 146>>)
                @@ AtCpu(33534, <<86, 147>>)
                @@ Loop(32784)
                @@ Vectors(32784, 32768, 32784)]

IndirectPointers == {33279, 33056, 33534, 33535, 33280, 65535}

IndirectRoms == {RomIndirect(ptr) : ptr \in IndirectPointers}

\* $8000: CLC or SEC ; LDA #a ; ADC #m or SBC #m
RomAlu(flag, a, op, m) ==
    [nPrgRomBanks |-> 2, mirroring |-> HORIZONTAL,
     prgRom |-> AtCpu(32768, <<flag, 169, a, op, m>>)
                @@ Loop(32784)
                @@ Vectors(32784, 32768, 32784)]

\* the operands of the arithmetic programs: the two lowest and the two
\* highest of every sixteen bytes, $7E $7F $80 $81 and $FE $FF $00 $01 among
\* them
Operands == {m \in 0 .. 255 : m % 16 \in {0, 1, 14, 15}}

\* every accumulator, with and without carry, for ADC and SBC
AluRoms ==
    {RomAlu(flag, a, op, m) :
        flag \in {24, 56}, a \in 0 .. 255, op \in {105, 233}, m \in Operands}

\* $8000: LDA #a ; ADC #m ; SEC ; SBC #m      (the carry is clear after reset)
RomRoundTrip(a, m) ==
    [nPrgRomBanks |-> 2, mirroring |-> HORIZONTAL,
     prgRom |-> AtCpu(32768, <<169, a, 105, m, 56, 233, m>>)
                @@ Loop(32784)
                @@ Vectors(32784, 32768, 32784)]

RoundTripRoms == {RomRoundTrip(a, m) : a \in 0 .. 255, m \in 0 .. 255}

\* cartridges of one and of two PRG banks, a different byte at the start,
\* in the middle and at the end of each bank; reset vector $8000
RomBus(banks) ==
    [nPrgRomBanks |-> banks, mirroring |-> HORIZONTAL,
     prgRom |-> [o \in {k * 8192 + j : k \in 0 .. 2 * banks - 1,
                                       j \in {0, 32, 8188, 8189, 8191}} |->
                    IF o % 8192 = 8188 THEN 0
                    ELSE IF o % 8192 = 8189 THEN 128
                    ELSE 16 * (o \div 8192 + 1) + ((o % 8192) % 15)]]

BusRoms == {RomBus(1), RomBus(2)}

\* addresses the host reads and writes: every mirror of three RAM cells,
\* PPU registers and mirrors of them, an APU register, and addresses below
\* and inside the cartridge range
BusAddresses ==
    {a + 2048 * m : a \in {0, 1, 2047}, m \in 0 .. 3}
    \cup {8192, 8194, 8198, 8199, 8200, 8206, 16378, 16383}
    \cup {16384, 16416, 24576, 32768, 40960, 49152, 65535}

BusBytes == {1, 129}

\* $8000: LDA #$20 ; STA $2006 ; LDA #$00 ; STA $2006      (v = $2000)
\*        LDA #b ; STA $2007                    (b stored at $2001, v = $2002)
\*        LDA #$20 ; STA $2006 ; LDA #$01 ; STA $2006      (v = $2001)
\*        LDA $2007                             (b in the read buffer)
\*        LDA #$3F ; STA $2006                  (latched only: w = 1)
\*        L: JMP L
RomStatus(b, latched) ==
    [nPrgRomBanks |-> 2, mirroring |-> HORIZONTAL,
     prgRom |-> AtCpu(32768, <<169, 32, 141, 6, 32, 169, 0, 141, 6, 32,
                               169, b, 141, 7, 32,
                               169, 32, 141, 6, 32, 169, 1, 141, 6, 32,
                               173, 7, 32>>)
                @@ (IF latched
                    THEN AtCpu(32796, <<169, 63, 141, 6, 32>>) @@ Loop(32801)
                    ELSE Loop(32796))
                @@ AtCpu(32832, <<64>>)
                @@ Vectors(32832, 32768, 32832)]

StatusRoms == {RomStatus(95, TRUE), RomStatus(224, TRUE), RomStatus(255, FALSE)}

\* the PPU ticks after which the host reads $2002: the last before VBlank
\* is raised, the tick that raises it, and the next
StatusTicks == {82182, 82183, 82184}

\* $8000: LDA #$84 ; STA $2000                 (GenerateNMI, increment 32)
\*        LDA #$21 ; STA $2006 ; LDA #$08 ; STA $2006 ; LDA #$2A ; STA $2007
\*        LDA #$3E ; STA $2006 ; LDA #$E0 ; STA $2006 ; LDA #$15 ; STA $2007
\*        LDA #$21 ; STA $2006 ; LDA #$28 ; STA $2006 ; LDA $2007
\*        LDX #$5A ; STX $2006 ; STX $10 ; STX $2001 ; L: JMP L
\* IRQ/BRK and NMI at $8040: RTI
RomReset ==
    [nPrgRomBanks |-> 2, mirroring |-> HORIZONTAL,
     prgRom |-> AtCpu(32768, <<169, 132, 141, 0, 32,
                               169, 33, 141, 6, 32, 169, 8, 141, 6, 32,
                               169, 42, 141, 7, 32,
                               169, 62, 141, 6, 32, 169, 224, 141, 6, 32,
                               169, 21, 141, 7, 32,
                               169, 33, 141, 6, 32, 169, 40, 141, 6, 32,
                               173, 7, 32,
                               162, 90, 142, 6, 32, 134, 16, 142, 1, 32>>)
                @@ Loop(32826)
                @@ AtCpu(32832, <<64>>)
                @@ Vectors(32832, 32768, 32832)]

\* the PPU ticks after which the host resets the system: early in the first
\* frame, in its VBlank, and at its end
ResetTicks == {1000, 82190, 89001}

\* the PPU ticks after which the host sets GenerateNMI: the last before
\* VBlank is raised, and the tick that raises it
EnableTicks == {82180, 82181}

\* bytes the host writes to $2006, as high and as low part of an address:
\* $2020, $203F, $20E0, $3F20, $3F3F, $3FE0 and $E0 for $20
AddressBytes == {32, 63, 224}

\* PPU addresses the host stores a byte at, and the bytes
StoreAddresses == {8224, 16160}

StoreBytes == {90, 165}

\* $8000: the instruction of opcode k with the operand bytes $10 $02; every
\* other byte of the cartridge is 0 (BRK), the IRQ and NMI handlers are RTI
RomOpcode(k) ==
    [nPrgRomBanks |-> 2, mirroring |-> HORIZONTAL,
     prgRom |-> AtCpu(32768, <<k, 16, 2>>)
                @@ AtCpu(32832, <<64>>)
                @@ Vectors(32832, 32768, 32832)]

OpcodeRoms == {RomOpcode(k) : k \in 0 .. 255}

\* $8000: LDA #1 ; STA $0000 ; LDA #n ; AND $0000 ; BEQ even
\*        LDA #1 ; STA $0001 ; JMP end
\* even:  LDA #2 ; STA $0001
\* end:   (BRK)
RomEvenOdd(n) ==
    [nPrgRomBanks |-> 2, mirroring |-> HORIZONTAL,
     prgRom |-> AtCpu(32768, <<169, 1, 141, 0, 0, 169, n, 45, 0, 0, 240, 8,
                               169, 1, 141, 1, 0, 76, 25, 128,
                               169, 2, 141, 1, 0>>)
                @@ AtCpu(32832, <<64>>)
                @@ Vectors(32832, 32768, 32832)]

EvenOddRoms == {RomEvenOdd(n) : n \in 0 .. 255}

\* $8000: LDA #ctrl ; STA $2000 ; LDA #$20 ; STA $2006 ; STA $2006  (v = $2020)
\* $800D: LDX #x ; LDY #y ; LDA #a ; op lo $20 ; L: JMP L
\* IRQ/BRK and NMI at $8040: RTI
RomPpuStore(ctrl, op, lo, x, y, a) ==
    [nPrgRomBanks |-> 2, mirroring |-> HORIZONTAL,
     prgRom |-> AtCpu(32768, <<169, ctrl, 141, 0, 32, 169, 32, 141, 6, 32,
                               141, 6, 32, 162, x, 160, y, 169, a,
                               op, lo, 32>>)
                @@ Loop(32790)
                @@ AtCpu(32832, <<64>>)
                @@ Vectors(32832, 32768, 32832)]

\* the stores STY, STA, STX, SAX abs, STA abs,Y and STA abs,X
StoreOpcodes == {140, 141, 142, 143, 153, 157}

\* each store aimed at $2007 with the byte d, under either increment
PpuStoreRoms ==
    {RomPpuStore(ctrl, op, 7, d, d, d) :
        ctrl \in {0, 4}, op \in {140, 141, 142, 143}, d \in StoreBytes}
    \cup {RomPpuStore(ctrl, 157, 0, 7, d, d) :
        ctrl \in {0, 4}, d \in StoreBytes}
    \cup {RomPpuStore(ctrl, 153, 0, d, 7, d) :
        ctrl \in {0, 4}, d \in StoreBytes}

\* the idle program on a cartridge of either mirroring
PpuRoms == {[RomIdle EXCEPT !.mirroring = m] : m \in {HORIZONTAL, VERTICAL}}

\* PPU addresses the host writes: the first and the last byte of each
\* nametable, palette entries with their aliases and mirrors, the pattern
\* table, and the unmapped $3000
PpuAddresses ==
    {8192 + 1024 * q + k : q \in 0 .. 3, k \in {0, 1023}}
    \cup {16128 + x : x \in {0, 1, 4, 8, 12, 16, 17, 20, 24, 28, 32, 48, 255}}
    \cup {0, 1, 12288}

PpuBytes == {42, 129}

Roms == <<RomIdle, RomNmiJmp, RomNmiInc, RomNop, RomTrap, RomPoll>>

\* the cartridges each specification starts from
SysRoms == {2, 6}
CpuRoms == {1, 2, 3, 4, 5, 6}

(***************************************************************************)
(* State.  nes is the NesSystem object: its components ram, vram,          *)
(* paletteRam (with the mirroring vram was built with), gpak, cpu and ppu, *)
(* the pendingNmi flag and the clockCounter, together with whether the     *)
(* process has exited (halted), and three observers of its execution:      *)
(* trace, the sub-steps the last cycle() performed, in order; ppuTicks,    *)
(* the PPU ticks since construction; nmiEntry, the CPU's remaining-cycle   *)
(* counter as it was when nmi() was last entered (-1 before the first).    *)
(* The host's position: call is the operation it called last and prevCall  *)
(* the one before; mode tells whether it is inside the loop of             *)
(* runUntilFrame, and frameCycles counts the cycles the current or last    *)
(* runUntilFrame performed; warmup and resets count the single cycles and  *)
(* the resets it has issued; mark holds the CPU's lifetime counters as     *)
(* they were at the last reset, the step(), cycle(), irq() and nmi() calls *)
(* made on the CPU since, and the CPU as it was before the last of them.   *)
(* controller is the NesController object the host owns beside the system, *)
(* and pad what the host knows of port 1: the buttons the player holds     *)
(* (held), those held when the port was last strobed (latched), whether it *)
(* was strobed at all, the reads since that strobe, the bit the last read  *)
(* returned (ret), the calls made on the controller, and whether input has *)
(* seen every button change and no read so far (fresh).                    *)
(***************************************************************************)
VARIABLES nes, call, prevCall, mode, frameCycles, warmup, resets, mark,
          controller, pad

vars == <<nes, call, prevCall, mode, frameCycles, warmup, resets, mark,
          controller, pad>>

(***************************************************************************)
(* Mirrored RAM.  A store is the function of the cells written so far;     *)
(* every other cell still holds the 0 it was initialised to.               *)
(***************************************************************************)
\* faulty variant: no mirroring
RamMirrorNone(size, a) == a

RamMirror(size, a) == a % size

RamRead(mem, size, a) ==
    IF RamMirror(size, a) \in DOMAIN mem THEN mem[RamMirror(size, a)] ELSE 0

RamWrite(mem, size, a, d) == (RamMirror(size, a) :> d) @@ mem

\* faulty variant: the mirroring of the cartridge ignored
VRamMirrorHorizontal(mirroring, a) ==
    (a - Bit(a, 11) * 2048 - Bit(a, 10) * 1024)
    + (IF Bit(a, 11) = 1 THEN 1024 ELSE 0)

\* VRam::mirror
VRamMirror(mirroring, a) ==
    (a - Bit(a, 11) * 2048 - Bit(a, 10) * 1024)
    + (IF (Bit(a, 11) = 1 /\ mirroring = HORIZONTAL)
          \/ (Bit(a, 10) = 1 /\ mirroring = VERTICAL)
       THEN 1024 ELSE 0)

\* faulty variant: no aliasing of the background colour
BgMirrorNone(a) == a

\* PaletteRam::bgMirror
BgMirror(a) ==
    IF Bit(a, 4) = 1 /\ a % 4 = 0 THEN a - 16 ELSE a

(***************************************************************************)
(* Cartridge (NROM).                                                       *)
(***************************************************************************)
\* faulty variant: the mask of two banks for every cartridge
MapPrgRomReadTwoBanks(s, a) == a % 32768

MapPrgRomRead(s, a) ==
    IF s.gpak.nPrgRomBanks > 1 THEN a % 32768 ELSE a % 16384

PrgRomRead(s, a) ==
    LET At(o) == IF o \in DOMAIN s.gpak.prgRom THEN s.gpak.prgRom[o] ELSE 0
    IN At(MapPrgRomRead(s, a))

\* prgRom[mapper->mapPrgRomWrite(addr)] = data, where mapPrgRomWrite is
\* assert(false && "PRG ROM write not supported"); return 0x00;
\* the assertion ends the process unless the build has compiled it out
PrgRomWrite(s, a, d) ==
    IF s.ndebug
    THEN [s EXCEPT !.gpak.prgRom = (0 :> d) @@ @]
    ELSE [s EXCEPT !.halted = TRUE]

(***************************************************************************)
(* PPU bus.                                                                *)
(***************************************************************************)
\* gpak.chrRom holds the CHR bytes that differ from 0
PpuBusRead(s, a) ==
    IF a >= PPU_PATTERN_TABLE_START /\ a <= PPU_PATTERN_TABLE_END
    THEN IF a \in DOMAIN s.gpak.chrRom THEN s.gpak.chrRom[a] ELSE 0
    ELSE IF a >= PPU_NAME_TABLE_START /\ a <= PPU_NAME_TABLE_END
         THEN RamRead(s.vram, 2048, VRamMirror(s.mirroring, a))
    ELSE IF a >= PPU_PALETTE_START /\ a <= PPU_PALETTE_END
         THEN RamRead(s.paletteRam, 32, BgMirror(a))
    ELSE 0

\* chrRom[mapper->mapChrRomWrite(addr)] = data, where mapChrRomWrite is
\* assert(false && "CHR ROM write not supported"); return 0x00;
PpuBusWrite(s, a, d) ==
    IF a >= PPU_PATTERN_TABLE_START /\ a <= PPU_PATTERN_TABLE_END
    THEN IF s.ndebug
         THEN [s EXCEPT !.gpak.chrRom = (0 :> d) @@ @]
         ELSE [s EXCEPT !.halted = TRUE]
    ELSE IF a >= PPU_NAME_TABLE_START /\ a <= PPU_NAME_TABLE_END
         THEN [s EXCEPT !.vram =
                  RamWrite(@, 2048, VRamMirror(s.mirroring, a), d)]
    ELSE IF a >= PPU_PALETTE_START /\ a <= PPU_PALETTE_END
         THEN [s EXCEPT !.paletteRam = RamWrite(@, 32, BgMirror(a), d)]
    ELSE s

(***************************************************************************)
(* PPU registers.                                                          *)
(***************************************************************************)
PpuReset ==
    [cycles |-> 0, scanline |-> 0, frameCounter |-> 0,
     frameCompleted |-> FALSE, r_PPUCTRL |-> 0, r_PPUMASK |-> 0,
     r_PPUSTATUS |-> 0, r_PPUADDR |-> 0, r_TMPADDR |-> 0, r_coarseX |-> 0,
     r_coarseY |-> 0, r_fineX |-> 0, r_fineY |-> 0, r_nametableIdx |-> 0,
     r_writeToggle |-> FALSE, dataBuffer |-> 0]

ControllerWrite(s, d) ==
    [s EXCEPT !.ppu.r_PPUCTRL = d, !.ppu.r_nametableIdx = d % 4]

MaskWrite(s, d) == [s EXCEPT !.ppu.r_PPUMASK = d]

\* faulty variant: a read that leaves the VBlank flag
StatusReadKeepsVBlank(s) ==
    [v |-> (s.ppu.r_PPUSTATUS \div 32) * 32 + (s.ppu.dataBuffer % 32),
     s |-> [s EXCEPT !.ppu.r_writeToggle = FALSE]]

\* statusRead: the byte it returns (v) and the machine it leaves (s)
StatusRead(s) ==
    [v |-> (s.ppu.r_PPUSTATUS \div 32) * 32 + (s.ppu.dataBuffer % 32),
     s |-> [s EXCEPT !.ppu.r_PPUSTATUS = SetBit(@, VerticalBlanking, FALSE),
                     !.ppu.r_writeToggle = FALSE]]

\* faulty variant: a scroll write that keeps a toggle of its own
ScrollWriteOwnToggle(s, d) ==
    [s EXCEPT !.ppu.r_coarseX = d \div 8, !.ppu.r_fineX = d % 8]

ScrollWrite(s, d) ==
    IF ~s.ppu.r_writeToggle
    THEN [s EXCEPT !.ppu.r_coarseX = d \div 8, !.ppu.r_fineX = d % 8,
                   !.ppu.r_writeToggle = TRUE]
    ELSE [s EXCEPT !.ppu.r_coarseY = d \div 8, !.ppu.r_fineY = d % 8,
                   !.ppu.r_writeToggle = FALSE]

\* faulty variant: the whole byte taken as the high part of the address
AddressWriteNoMask(s, d) ==
    IF ~s.ppu.r_writeToggle
    THEN [s EXCEPT !.ppu.r_TMPADDR = (@ % 256) + d * 256,
                   !.ppu.r_writeToggle = TRUE]
    ELSE LET t == ((s.ppu.r_TMPADDR % 32768) \div 256) * 256 + d
         IN [s EXCEPT !.ppu.r_TMPADDR = t, !.ppu.r_PPUADDR = t,
                      !.ppu.r_writeToggle = FALSE]

AddressWrite(s, d) ==
    IF ~s.ppu.r_writeToggle
    THEN [s EXCEPT !.ppu.r_TMPADDR = (@ % 256) + (d % 64) * 256,
                   !.ppu.r_writeToggle = TRUE]
    ELSE LET t == ((s.ppu.r_TMPADDR % 32768) \div 256) * 256 + d
         IN [s EXCEPT !.ppu.r_TMPADDR = t, !.ppu.r_PPUADDR = t,
                      !.ppu.r_writeToggle = FALSE]

AddrIncrement(s) == IF Bit(s.ppu.r_PPUCTRL, IncrementMode) = 1 THEN 32 ELSE 1

DataWrite(s, d) ==
    [PpuBusWrite(s, s.ppu.r_PPUADDR, d)
        EXCEPT !.ppu.r_PPUADDR = U16(@ + AddrIncrement(s))]

\* faulty variant: a read that is never served from the buffer
DataReadUnbuffered(s) ==
    LET Direct(data) ==
            [v |-> data,
             s |-> [s EXCEPT !.ppu.dataBuffer = data,
                             !.ppu.r_PPUADDR = U16(@ + AddrIncrement(s))]]
    IN Direct(PpuBusRead(s, s.ppu.r_PPUADDR))

\* dataRead: the byte it returns (v) and the machine it leaves (s)
DataRead(s) ==
    LET Buffered(data) ==
            [v |-> IF s.ppu.r_PPUADDR >= 16128 THEN data
                   ELSE s.ppu.dataBuffer,
             s |-> [s EXCEPT !.ppu.dataBuffer = data,
                             !.ppu.r_PPUADDR = U16(@ + AddrIncrement(s))]]
    IN Buffered(PpuBusRead(s, s.ppu.r_PPUADDR))

(***************************************************************************)
(* Faulty variants of the code, against which the properties are tried.    *)
(* PPU frame clock: a scanline one dot too long; a pre-render line that    *)
(* leaves VBlank raised.                                                   *)
(***************************************************************************)
PpuCycleLongLine(s) ==
    LET p0 == s.ppu
        p1 == [p0 EXCEPT !.cycles = @ + 1,
                         !.frameCompleted =
                             IF p0.scanline = -1 THEN FALSE ELSE @]
        line == p1.scanline + 1
        p2 == IF p1.cycles <= CYCLES_PER_SCANLINE THEN p1
              ELSE IF line = 241
                   THEN [p1 EXCEPT !.cycles = 0, !.scanline = line,
                            !.r_PPUSTATUS = SetBit(@, VerticalBlanking, TRUE)]
              ELSE IF line = SCANLINES_PER_FRAME - 1
                   THEN [p1 EXCEPT !.cycles = 0, !.scanline = -1,
                            !.frameCompleted = TRUE,
                            !.frameCounter = @ + 1,
                            !.r_PPUSTATUS = SetBit(@, VerticalBlanking, FALSE)]
              ELSE [p1 EXCEPT !.cycles = 0, !.scanline = line]
        nmi == p1.cycles > CYCLES_PER_SCANLINE /\ line = 241
               /\ Bit(p1.r_PPUCTRL, GenerateNMI) = 1
    IN [s EXCEPT !.ppu = p2,
                 !.pendingNmi = IF nmi THEN TRUE ELSE @,
                 !.ppuTicks = @ + 1,
                 !.trace = Append(@, "ppu")]

PpuCycleKeepsVBlank(s) ==
    LET p0 == s.ppu
        p1 == [p0 EXCEPT !.cycles = @ + 1,
                         !.frameCompleted =
                             IF p0.scanline = -1 THEN FALSE ELSE @]
        line == p1.scanline + 1
        p2 == IF p1.cycles < CYCLES_PER_SCANLINE THEN p1
              ELSE IF line = 241
                   THEN [p1 EXCEPT !.cycles = 0, !.scanline = line,
                            !.r_PPUSTATUS = SetBit(@, VerticalBlanking, TRUE)]
              ELSE IF line = SCANLINES_PER_FRAME - 1
                   THEN [p1 EXCEPT !.cycles = 0, !.scanline = -1,
                            !.frameCompleted = TRUE,
                            !.frameCounter = @ + 1]
              ELSE [p1 EXCEPT !.cycles = 0, !.scanline = line]
        nmi == p1.cycles >= CYCLES_PER_SCANLINE /\ line = 241
               /\ Bit(p1.r_PPUCTRL, GenerateNMI) = 1
    IN [s EXCEPT !.ppu = p2,
                 !.pendingNmi = IF nmi THEN TRUE ELSE @,
                 !.ppuTicks = @ + 1,
                 !.trace = Append(@, "ppu")]

(***************************************************************************)
(* The PPU frame clock.                                                    *)
(***************************************************************************)
\* faulty variant: an NMI raised at every tick that finds VBlank and
\* GenerateNMI both set
PpuCycleNmiLevel(s) ==
    LET p0 == s.ppu
        p1 == [p0 EXCEPT !.cycles = @ + 1,
                         !.frameCompleted =
                             IF p0.scanline = -1 THEN FALSE ELSE @]
        line == p1.scanline + 1
        p2 == IF p1.cycles < CYCLES_PER_SCANLINE THEN p1
              ELSE IF line = 241
                   THEN [p1 EXCEPT !.cycles = 0, !.scanline = line,
                            !.r_PPUSTATUS = SetBit(@, VerticalBlanking, TRUE)]
              ELSE IF line = SCANLINES_PER_FRAME - 1
                   THEN [p1 EXCEPT !.cycles = 0, !.scanline = -1,
                            !.frameCompleted = TRUE,
                            !.frameCounter = @ + 1,
                            !.r_PPUSTATUS = SetBit(@, VerticalBlanking, FALSE)]
              ELSE [p1 EXCEPT !.cycles = 0, !.scanline = line]
        nmi == Bit(p2.r_PPUSTATUS, VerticalBlanking) = 1
               /\ Bit(p1.r_PPUCTRL, GenerateNMI) = 1
    IN [s EXCEPT !.ppu = p2,
                 !.pendingNmi = IF nmi THEN TRUE ELSE @,
                 !.ppuTicks = @ + 1,
                 !.trace = Append(@, "ppu")]

PpuCycle(s) ==
    LET p0 == s.ppu
        p1 == [p0 EXCEPT !.cycles = @ + 1,
                         !.frameCompleted =
                             IF p0.scanline = -1 THEN FALSE ELSE @]
        line == p1.scanline + 1
        p2 == IF p1.cycles < CYCLES_PER_SCANLINE THEN p1
              ELSE IF line = 241
                   THEN [p1 EXCEPT !.cycles = 0, !.scanline = line,
                            !.r_PPUSTATUS = SetBit(@, VerticalBlanking, TRUE)]
              ELSE IF line = SCANLINES_PER_FRAME - 1
                   THEN [p1 EXCEPT !.cycles = 0, !.scanline = -1,
                            !.frameCompleted = TRUE,
                            !.frameCounter = @ + 1,
                            !.r_PPUSTATUS = SetBit(@, VerticalBlanking, FALSE)]
              ELSE [p1 EXCEPT !.cycles = 0, !.scanline = line]
        nmi == p1.cycles >= CYCLES_PER_SCANLINE /\ line = 241
               /\ Bit(p1.r_PPUCTRL, GenerateNMI) = 1
    IN [s EXCEPT !.ppu = p2,
                 !.pendingNmi = IF nmi THEN TRUE ELSE @,
                 !.ppuTicks = @ + 1,
                 !.trace = Append(@, "ppu")]

(***************************************************************************)
(* CPU bus.                                                                *)
(***************************************************************************)
\* cpuBusRead: the byte it returns (v) and the machine it leaves (s)
CpuBusRead(s, a) ==
    IF a >= CPU_RAM_START /\ a <= CPU_RAM_END
    THEN [v |-> RamRead(s.ram, RAM_SIZE, a), s |-> s]
    ELSE IF a >= CPU_PPU_START /\ a <= CPU_PPU_END
         THEN IF a = CPU_PPU_START + 2 THEN StatusRead(s)
              ELSE IF a = CPU_PPU_START + 7 THEN DataRead(s)
              ELSE [v |-> 0, s |-> s]
    ELSE IF a >= CPU_APU_START /\ a <= CPU_APU_END THEN [v |-> 0, s |-> s]
    ELSE IF a >= CPU_CARTRIDGE_START /\ a <= CPU_CARTRIDGE_END
         THEN [v |-> PrgRomRead(s, a), s |-> s]
    ELSE [v |-> 0, s |-> s]

CpuBusWrite(s, a, d) ==
    IF a >= CPU_RAM_START /\ a <= CPU_RAM_END
    THEN [s EXCEPT !.ram = RamWrite(@, RAM_SIZE, a, d)]
    ELSE IF a >= CPU_PPU_START /\ a <= CPU_PPU_END
         THEN CASE a = CPU_PPU_START -> ControllerWrite(s, d)
                [] a = CPU_PPU_START + 1 -> MaskWrite(s, d)
                [] a = CPU_PPU_START + 5 -> ScrollWrite(s, d)
                [] a = CPU_PPU_START + 6 -> AddressWrite(s, d)
                [] a = CPU_PPU_START + 7 -> DataWrite(s, d)
                [] OTHER -> s
    ELSE IF a >= CPU_APU_START /\ a <= CPU_APU_END THEN s
    ELSE IF a >= CPU_CARTRIDGE_START /\ a <= CPU_CARTRIDGE_END
         THEN PrgRomWrite(s, a, d)
    ELSE s

(***************************************************************************)
(* CPU: addressing modes.  A mode maps the machine to the machine it       *)
(* leaves (s) and its extra-cycle mask (x).  The steps of a handler are    *)
(* written as local operators, last step first, each taking the results   *)
(* of the steps before it.                                                 *)
(***************************************************************************)
\* read the byte at PC and advance PC
FetchPC(s) ==
    LET Advance(r) == [s |-> [r.s EXCEPT !.cpu.r_PC = U16(@ + 1)], v |-> r.v]
    IN Advance(CpuBusRead(s, s.cpu.r_PC))

\* addr = a; fetched = cpuBusRead(addr)
Operand(s, a, x) ==
    LET Latch(r) ==
            [s |-> [r.s EXCEPT !.cpu.addr = a, !.cpu.fetched = r.v], x |-> x]
    IN Latch(CpuBusRead(s, a))

\* the 16-bit little-endian word at PC
FetchWord(s) ==
    LET Word(lo, hi) == [s |-> hi.s, v |-> hi.v * 256 + lo.v]
        High(lo) == Word(lo, FetchPC(lo.s))
    IN High(FetchPC(s))

PageOf(a) == a \div 256

IMP(s) == [s |-> s, x |-> 0]

ACC(s) == [s |-> [s EXCEPT !.cpu.fetched = s.cpu.r_A], x |-> 0]

IMM(s) ==
    LET Latch(f) == [s |-> [f.s EXCEPT !.cpu.fetched = f.v], x |-> 0]
    IN Latch(FetchPC(s))

ZP0(s) ==
    LET At(f) == Operand(f.s, f.v, 0)
    IN At(FetchPC(s))

ZPX(s) ==
    LET At(f) == Operand(f.s, U8(f.v + s.cpu.r_X), 0)
    IN At(FetchPC(s))

ZPY(s) ==
    LET At(f) == Operand(f.s, U8(f.v + s.cpu.r_Y), 0)
    IN At(FetchPC(s))

REL(s) ==
    LET Latch(f) == [s |-> [f.s EXCEPT !.cpu.fetched = f.v], x |-> 3]
    IN Latch(FetchPC(s))

ABS(s) ==
    LET At(w) == Operand(w.s, w.v, 0)
    IN At(FetchWord(s))

\* the body shared by ABX and ABY: the operand at base + index
Indexed(w, index) ==
    LET At(a) == Operand(w.s, a, IF PageOf(w.v) # PageOf(a) THEN 1 ELSE 0)
    IN At(U16(w.v + index))

ABX(s) == Indexed(FetchWord(s), s.cpu.r_X)

ABY(s) == Indexed(FetchWord(s), s.cpu.r_Y)

\* faulty variant: the high byte always read from ptr + 1
INDAcrossPages(s) ==
    LET Low(hi, lo) == Operand(lo.s, hi.v * 256 + lo.v, 0)
        High(ptr, hi) == Low(hi, CpuBusRead(hi.s, ptr))
        Pointer(w) == High(w.v, CpuBusRead(w.s, U16(w.v + 1)))
    IN Pointer(FetchWord(s))

IND(s) ==
    LET Low(hi, lo) == Operand(lo.s, hi.v * 256 + lo.v, 0)
        High(ptr, hi) == Low(hi, CpuBusRead(hi.s, ptr))
        Pointer(w) ==
            High(w.v, CpuBusRead(w.s, IF w.v % 256 = 255
                                      THEN PageOf(w.v) * 256
                                      ELSE U16(w.v + 1)))
    IN Pointer(FetchWord(s))

IZX(s) ==
    LET High(lo, hi) == Operand(hi.s, hi.v * 256 + lo.v, 0)
        Low(f, lo) == High(lo, CpuBusRead(lo.s, U8(f.v + s.cpu.r_X + 1)))
        Pointer(f) == Low(f, CpuBusRead(f.s, U8(f.v + s.cpu.r_X)))
    IN Pointer(FetchPC(s))

IZY(s) ==
    LET High(lo, hi) ==
            Indexed([s |-> hi.s, v |-> hi.v * 256 + lo.v], s.cpu.r_Y)
        Low(f, lo) == High(lo, CpuBusRead(lo.s, U8(f.v + 1)))
        Pointer(f) == Low(f, CpuBusRead(f.s, f.v))
    IN Pointer(FetchPC(s))

AddrMode(m, s) ==
    CASE m = "IMP" -> IMP(s)
      [] m = "ACC" -> ACC(s)
      [] m = "IMM" -> IMM(s)
      [] m = "ZP0" -> ZP0(s)
      [] m = "ZPX" -> ZPX(s)
      [] m = "ZPY" -> ZPY(s)
      [] m = "REL" -> REL(s)
      [] m = "ABS" -> ABS(s)
      [] m = "ABX" -> ABX(s)
      [] m = "ABY" -> ABY(s)
      [] m = "IND" -> IND(s)
      [] m = "IZX" -> IZX(s)
      [] m = "IZY" -> IZY(s)

(***************************************************************************)
(* CPU: stack, flags and interrupts.                                       *)
(***************************************************************************)
\* faulty variant: a push one slot lower, with no wrap inside the page
PushBelow(s, d) ==
    [CpuBusWrite(s, STACK_PAGE + s.cpu.r_SP - 1, d)
        EXCEPT !.cpu.r_SP = U8(@ - 1)]

\* write(STACK_PAGE + (r_SP--), d)
Push(s, d) ==
    [CpuBusWrite(s, STACK_PAGE + s.cpu.r_SP, d) EXCEPT !.cpu.r_SP = U8(@ - 1)]

\* faulty variant: a pull that reads before it increments the pointer
PullPostIncrement(s) ==
    LET Popped(r) == [s |-> [r.s EXCEPT !.cpu.r_SP = U8(@ + 1)], v |-> r.v]
    IN Popped(CpuBusRead(s, STACK_PAGE + s.cpu.r_SP))

\* read(STACK_PAGE + (++r_SP))
Pull(s) ==
    LET Popped(sp, r) == [s |-> [r.s EXCEPT !.cpu.r_SP = sp], v |-> r.v]
        From(sp) == Popped(sp, CpuBusRead(s, STACK_PAGE + sp))
    IN From(U8(s.cpu.r_SP + 1))

\* r_status[Z] = v == 0; r_status[N] = v & 0x80
SetZN(p, v) == SetBit(SetBit(p, Z, v = 0), N, v >= 128)

\* the 16-bit little-endian word at a, high byte read first
ReadVector(s, a) ==
    LET Word(hi, lo) == [s |-> lo.s, v |-> hi.v * 256 + lo.v]
        Low(hi) == Word(hi, CpuBusRead(hi.s, a))
    IN Low(CpuBusRead(s, a + 1))

\* the body shared by irq() and nmi(): push PC and status, load the vector
Interrupt(s, vector, cyc) ==
    LET Jump(w) == [w.s EXCEPT !.cpu.r_PC = w.v, !.cpu.cycles = cyc]
        Status(s2, p) ==
            Jump(ReadVector(Push([s2 EXCEPT !.cpu.r_status = p], p), vector))
        Low(s1) ==
            Status(Push(s1, s.cpu.r_PC % 256),
                   SetBit(SetBit(SetBit(s.cpu.r_status, B, FALSE), U, TRUE),
                          I, TRUE))
    IN Low(Push(s, s.cpu.r_PC \div 256))

\* faulty variant: an irq() that is taken whatever the I flag
IrqUnmasked(s) == Interrupt(s, 65534, 7)

Irq(s) ==
    IF Bit(s.cpu.r_status, I) = 0 THEN Interrupt(s, 65534, 7) ELSE s

Nmi(s) ==
    [Interrupt(s, 65530, 8) EXCEPT !.nmiEntry = s.cpu.cycles,
                                   !.trace = Append(@, "nmi")]

\* faulty variant: a reset that absorbs one cycle more
CpuResetEightCycles(s) ==
    LET Jump(w) == [w.s EXCEPT !.cpu.r_PC = w.v, !.cpu.cycles = 8]
    IN Jump(ReadVector([s EXCEPT !.cpu.r_status = 0, !.cpu.r_A = 0,
                                 !.cpu.r_X = 0, !.cpu.r_Y = 0,
                                 !.cpu.r_SP = 253], 65532))

CpuReset(s) ==
    LET Jump(w) == [w.s EXCEPT !.cpu.r_PC = w.v, !.cpu.cycles = 7]
    IN Jump(ReadVector([s EXCEPT !.cpu.r_status = 0, !.cpu.r_A = 0,
                                 !.cpu.r_X = 0, !.cpu.r_Y = 0,
                                 !.cpu.r_SP = 253], 65532))

(***************************************************************************)
(* CPU: instructions.  An instruction maps the machine to the machine it   *)
(* leaves (s) and its extra-cycle mask (x).                                *)
(***************************************************************************)
Ret(s, x) == [s |-> s, x |-> x]

LDA(s) == Ret([s EXCEPT !.cpu.r_A = s.cpu.fetched,
                        !.cpu.r_status = SetZN(@, s.cpu.fetched)], 1)

LDX(s) == Ret([s EXCEPT !.cpu.r_X = s.cpu.fetched,
                        !.cpu.r_status = SetZN(@, s.cpu.fetched)], 1)

LDY(s) == Ret([s EXCEPT !.cpu.r_Y = s.cpu.fetched,
                        !.cpu.r_status = SetZN(@, s.cpu.fetched)], 1)

STA(s) == Ret(CpuBusWrite(s, s.cpu.addr, s.cpu.r_A), 0)

STX(s) == Ret(CpuBusWrite(s, s.cpu.addr, s.cpu.r_X), 0)

STY(s) == Ret(CpuBusWrite(s, s.cpu.addr, s.cpu.r_Y), 0)

PHA(s) == Ret(Push(s, s.cpu.r_A), 0)

PHP(s) ==
    Ret(Push(s, SetBit(SetBit(s.cpu.r_status, B, TRUE), U, TRUE)), 0)

PLA(s) ==
    LET Load(r) ==
            Ret([r.s EXCEPT !.cpu.r_A = r.v, !.cpu.r_status = SetZN(@, r.v)],
                0)
    IN Load(Pull(s))

PLP(s) ==
    LET Load(r) == Ret([r.s EXCEPT !.cpu.r_status = r.v], 0)
    IN Load(Pull(s))

\* faulty variant: an AND that leaves the flags
ANDKeepsFlags(s) == Ret([s EXCEPT !.cpu.r_A = BitAnd(@, s.cpu.fetched)], 1)

AND(s) ==
    LET r == BitAnd(s.cpu.r_A, s.cpu.fetched)
    IN Ret([s EXCEPT !.cpu.r_A = r, !.cpu.r_status = SetZN(@, r)], 1)

INC(s) ==
    LET r == U8(s.cpu.fetched + 1)
    IN Ret([CpuBusWrite(s, s.cpu.addr, r)
               EXCEPT !.cpu.fetched = r, !.cpu.r_status = SetZN(@, r)], 0)

INX(s) ==
    LET r == U8(s.cpu.r_X + 1)
    IN Ret([s EXCEPT !.cpu.r_X = r, !.cpu.r_status = SetZN(@, r)], 0)

JMP(s) == Ret([s EXCEPT !.cpu.r_PC = s.cpu.addr], 0)

\* faulty variant: a JSR that pushes the address of the next instruction
JSRPushesNext(s) ==
    LET Jump(s2) == Ret([s2 EXCEPT !.cpu.r_PC = s.cpu.addr], 0)
        Return(ret) == Jump(Push(Push(s, ret \div 256), ret % 256))
    IN Return(s.cpu.r_PC)

JSR(s) ==
    LET Jump(s2) == Ret([s2 EXCEPT !.cpu.r_PC = s.cpu.addr], 0)
        Return(ret) == Jump(Push(Push(s, ret \div 256), ret % 256))
    IN Return(U16(s.cpu.r_PC - 1))

RTS(s) ==
    LET Jump(lo, hi) ==
            Ret([hi.s EXCEPT !.cpu.r_PC = U16(hi.v * 256 + lo.v + 1)], 0)
        High(lo) == Jump(lo, Pull(lo.s))
    IN High(Pull(s))

\* faulty variant: a taken branch costs one more cycle wherever it leads
BranchNoPagePenalty(s, taken) ==
    IF taken
    THEN Ret([s EXCEPT !.cpu.r_PC = U16(@ + Int8(s.cpu.fetched))], 1)
    ELSE Ret(s, 0)

\* the body shared by the eight branch instructions
Branch(s, taken) ==
    IF taken
    THEN LET pc == U16(s.cpu.r_PC + Int8(s.cpu.fetched))
         IN Ret([s EXCEPT !.cpu.r_PC = pc],
                1 + (IF PageOf(pc) # PageOf(s.cpu.r_PC) THEN 1 ELSE 0))
    ELSE Ret(s, 0)

BCC(s) == Branch(s, Bit(s.cpu.r_status, C) = 0)
BCS(s) == Branch(s, Bit(s.cpu.r_status, C) = 1)
BNE(s) == Branch(s, Bit(s.cpu.r_status, Z) = 0)
BEQ(s) == Branch(s, Bit(s.cpu.r_status, Z) = 1)
BPL(s) == Branch(s, Bit(s.cpu.r_status, N) = 0)
BMI(s) == Branch(s, Bit(s.cpu.r_status, N) = 1)
BVC(s) == Branch(s, Bit(s.cpu.r_status, V) = 0)
BVS(s) == Branch(s, Bit(s.cpu.r_status, V) = 1)

CLC(s) == Ret([s EXCEPT !.cpu.r_status = SetBit(@, C, FALSE)], 0)
CLD(s) == Ret([s EXCEPT !.cpu.r_status = SetBit(@, D, FALSE)], 0)
CLI(s) == Ret([s EXCEPT !.cpu.r_status = SetBit(@, I, FALSE)], 0)
CLV(s) == Ret([s EXCEPT !.cpu.r_status = SetBit(@, V, FALSE)], 0)
SEC(s) == Ret([s EXCEPT !.cpu.r_status = SetBit(@, C, TRUE)], 0)
SED(s) == Ret([s EXCEPT !.cpu.r_status = SetBit(@, D, TRUE)], 0)
SEI(s) == Ret([s EXCEPT !.cpu.r_status = SetBit(@, I, TRUE)], 0)

BRK(s) == Ret(Irq([s EXCEPT !.cpu.r_status = SetBit(@, I, FALSE)]), 0)

NOP(s) == Ret(s, 1)

RTI(s) ==
    LET Jump(p, lo, hi) ==
            Ret([hi.s EXCEPT
                    !.cpu.r_status = SetBit(SetBit(p.v, B, FALSE), U, FALSE),
                    !.cpu.r_PC = hi.v * 256 + lo.v], 0)
        High(p, lo) == Jump(p, lo, Pull(lo.s))
        Low(p) == High(p, Pull(p.s))
    IN Low(Pull(s))

TAX(s) == Ret([s EXCEPT !.cpu.r_X = s.cpu.r_A,
                        !.cpu.r_status = SetZN(@, s.cpu.r_A)], 0)

TAY(s) == Ret([s EXCEPT !.cpu.r_Y = s.cpu.r_A,
                        !.cpu.r_status = SetZN(@, s.cpu.r_A)], 0)

TXA(s) == Ret([s EXCEPT !.cpu.r_A = s.cpu.r_X,
                        !.cpu.r_status = SetZN(@, s.cpu.r_X)], 0)

TYA(s) == Ret([s EXCEPT !.cpu.r_A = s.cpu.r_Y,
                        !.cpu.r_status = SetZN(@, s.cpu.r_Y)], 0)

TSX(s) == Ret([s EXCEPT !.cpu.r_X = s.cpu.r_SP,
                        !.cpu.r_status = SetZN(@, s.cpu.r_SP)], 0)

TXS(s) == Ret([s EXCEPT !.cpu.r_SP = s.cpu.r_X], 0)

EOR(s) ==
    LET r == BitXor(s.cpu.r_A, s.cpu.fetched)
    IN Ret([s EXCEPT !.cpu.r_A = r, !.cpu.r_status = SetZN(@, r)], 1)

ORA(s) ==
    LET r == BitOr(s.cpu.r_A, s.cpu.fetched)
    IN Ret([s EXCEPT !.cpu.r_A = r, !.cpu.r_status = SetZN(@, r)], 1)

BIT(s) ==
    Ret([s EXCEPT !.cpu.r_status =
            SetBit(SetBit(SetBit(@, Z, BitAnd(s.cpu.r_A, s.cpu.fetched) = 0),
                          V, Bit(s.cpu.fetched, 6) = 1),
                   N, Bit(s.cpu.fetched, 7) = 1)], 0)

\* the sum of ADC and RRA: r_A + m + carry, with the flags it leaves
AddWithCarry(s, m, carry) ==
    LET Flags(sum) ==
            [s EXCEPT
                !.cpu.r_status =
                    SetZN(SetBit(SetBit(@, V,
                                        Bit(BitAnd(BitXor(s.cpu.r_A, sum),
                                                   BitXor(m, sum)), 7) = 1),
                                 C, sum > 255),
                          U8(sum)),
                !.cpu.r_A = U8(sum)]
    IN Flags(s.cpu.r_A + m + carry)

\* faulty variant: an ADC that ignores the carry flag
ADCWithoutCarry(s) == Ret(AddWithCarry(s, s.cpu.fetched, 0), 1)

ADC(s) == Ret(AddWithCarry(s, s.cpu.fetched, Bit(s.cpu.r_status, C)), 1)

\* faulty variant: the operand added as it is
SBCNoInvert(s) == ADC(s)

\* fetched = ~fetched; return ADC()
SBC(s) == ADC([s EXCEPT !.cpu.fetched = 255 - @])

\* the body shared by CMP, CPX and CPY
Compare(s, reg) ==
    [s EXCEPT !.cpu.r_status =
        SetBit(SetBit(SetBit(@, C, reg >= s.cpu.fetched),
                      Z, reg = s.cpu.fetched),
               N, Bit(U8(reg - s.cpu.fetched), 7) = 1)]

CMP(s) == Ret(Compare(s, s.cpu.r_A), 1)

CPX(s) == Ret(Compare(s, s.cpu.r_X), 0)

CPY(s) == Ret(Compare(s, s.cpu.r_Y), 0)

INY(s) ==
    LET r == U8(s.cpu.r_Y + 1)
    IN Ret([s EXCEPT !.cpu.r_Y = r, !.cpu.r_status = SetZN(@, r)], 0)

DEC(s) ==
    LET r == U8(s.cpu.fetched - 1)
    IN Ret([CpuBusWrite(s, s.cpu.addr, r)
               EXCEPT !.cpu.fetched = r, !.cpu.r_status = SetZN(@, r)], 0)

DEX(s) ==
    LET r == U8(s.cpu.r_X - 1)
    IN Ret([s EXCEPT !.cpu.r_X = r, !.cpu.r_status = SetZN(@, r)], 0)

DEY(s) ==
    LET r == U8(s.cpu.r_Y - 1)
    IN Ret([s EXCEPT !.cpu.r_Y = r, !.cpu.r_status = SetZN(@, r)], 0)

\* the body shared by the shifts and rotates of memory: fetched = r is
\* written back and the flags C, Z, N are set from the bit shifted out and r
ShiftMemory(s, r, oldC) ==
    [CpuBusWrite(s, s.cpu.addr, r)
        EXCEPT !.cpu.fetched = r,
               !.cpu.r_status = SetZN(SetBit(@, C, oldC), r)]

\* the body shared by the shifts and rotates of the accumulator
ShiftAccumulator(s, r, oldC) ==
    [s EXCEPT !.cpu.r_A = r, !.cpu.r_status = SetZN(SetBit(@, C, oldC), r)]

ASL(s) ==
    Ret(ShiftMemory(s, U8(s.cpu.fetched * 2), Bit(s.cpu.fetched, 7) = 1), 0)

ASA(s) ==
    Ret(ShiftAccumulator(s, U8(s.cpu.r_A * 2), Bit(s.cpu.r_A, 7) = 1), 0)

LSR(s) ==
    Ret(ShiftMemory(s, s.cpu.fetched \div 2, Bit(s.cpu.fetched, 0) = 1), 0)

LSA(s) ==
    Ret(ShiftAccumulator(s, s.cpu.r_A \div 2, Bit(s.cpu.r_A, 0) = 1), 0)

ROL(s) ==
    Ret(ShiftMemory(s, U8(s.cpu.fetched * 2) + Bit(s.cpu.r_status, C),
                    Bit(s.cpu.fetched, 7) = 1), 0)

ROA(s) ==
    Ret(ShiftAccumulator(s, U8(s.cpu.r_A * 2) + Bit(s.cpu.r_status, C),
                         Bit(s.cpu.r_A, 7) = 1), 0)

ROR(s) ==
    Ret(ShiftMemory(s, s.cpu.fetched \div 2 + 128 * Bit(s.cpu.r_status, C),
                    Bit(s.cpu.fetched, 0) = 1), 0)

RAA(s) ==
    Ret(ShiftAccumulator(s, s.cpu.r_A \div 2 + 128 * Bit(s.cpu.r_status, C),
                         Bit(s.cpu.r_A, 0) = 1), 0)

LAX(s) == Ret([s EXCEPT !.cpu.r_A = s.cpu.fetched, !.cpu.r_X = s.cpu.fetched,
                        !.cpu.r_status = SetZN(@, s.cpu.fetched)], 1)

SAX(s) == Ret(CpuBusWrite(s, s.cpu.addr, BitAnd(s.cpu.r_A, s.cpu.r_X)), 0)

DCP(s) ==
    LET r == U8(s.cpu.fetched - 1)
    IN Ret(Compare([CpuBusWrite(s, s.cpu.addr, r) EXCEPT !.cpu.fetched = r],
                   s.cpu.r_A), 0)

ISC(s) ==
    LET r == U8(s.cpu.fetched + 1)
    IN Ret(SBC([CpuBusWrite(s, s.cpu.addr, r) EXCEPT !.cpu.fetched = r]).s, 0)

\* the body shared by SLO, RLA and SRE: the shifted byte r is written back
\* and combined into the accumulator as a
ShiftCombine(s, r, oldC, a) ==
    [CpuBusWrite(s, s.cpu.addr, r)
        EXCEPT !.cpu.fetched = r, !.cpu.r_A = a,
               !.cpu.r_status = SetZN(SetBit(@, C, oldC), a)]

SLO(s) ==
    LET Or(r) == ShiftCombine(s, r, Bit(s.cpu.fetched, 7) = 1,
                              BitOr(s.cpu.r_A, r))
    IN Ret(Or(U8(s.cpu.fetched * 2)), 0)

RLA(s) ==
    LET And(r) == ShiftCombine(s, r, Bit(s.cpu.fetched, 7) = 1,
                               BitAnd(s.cpu.r_A, r))
    IN Ret(And(U8(s.cpu.fetched * 2) + Bit(s.cpu.r_status, C)), 0)

SRE(s) ==
    LET Xor(r) == ShiftCombine(s, r, Bit(s.cpu.fetched, 0) = 1,
                               BitXor(s.cpu.r_A, r))
    IN Ret(Xor(s.cpu.fetched \div 2), 0)

RRA(s) ==
    LET Add(r) ==
            AddWithCarry([CpuBusWrite(s, s.cpu.addr, r)
                             EXCEPT !.cpu.fetched = r],
                         r, Bit(s.cpu.fetched, 0))
    IN Ret(Add(s.cpu.fetched \div 2 + 128 * Bit(s.cpu.r_status, C)), 0)

\* exit(1)
\* faulty variant: an illegal opcode that returns like a NOP
XXXReturns(s) == Ret(s, 0)

\* std::cerr << "Illegal Opcode (0x" << opcode << ") at $pc = 0x" << r_PC;
\* exit(1);
XXX(s) ==
    Ret([s EXCEPT !.halted = TRUE,
                  !.report = [opcode |-> s.cpu.opcode, pc |-> s.cpu.r_PC]], 0)

Instruction(i, s) ==
    CASE i = "LDA" -> LDA(s) [] i = "LDX" -> LDX(s) [] i = "LDY" -> LDY(s)
      [] i = "STA" -> STA(s) [] i = "STX" -> STX(s) [] i = "STY" -> STY(s)
      [] i = "PHA" -> PHA(s) [] i = "PHP" -> PHP(s)
      [] i = "PLA" -> PLA(s) [] i = "PLP" -> PLP(s)
      [] i = "AND" -> AND(s) [] i = "INC" -> INC(s) [] i = "INX" -> INX(s)
      [] i = "JMP" -> JMP(s) [] i = "JSR" -> JSR(s) [] i = "RTS" -> RTS(s)
      [] i = "BCC" -> BCC(s) [] i = "BCS" -> BCS(s)
      [] i = "BNE" -> BNE(s) [] i = "BEQ" -> BEQ(s)
      [] i = "BPL" -> BPL(s) [] i = "BMI" -> BMI(s)
      [] i = "BVC" -> BVC(s) [] i = "BVS" -> BVS(s)
      [] i = "CLC" -> CLC(s) [] i = "CLD" -> CLD(s) [] i = "CLI" -> CLI(s)
      [] i = "CLV" -> CLV(s) [] i = "SEC" -> SEC(s) [] i = "SED" -> SED(s)
      [] i = "SEI" -> SEI(s)
      [] i = "BRK" -> BRK(s) [] i = "NOP" -> NOP(s) [] i = "RTI" -> RTI(s)
      [] i = "TAX" -> TAX(s) [] i = "TAY" -> TAY(s) [] i = "TXA" -> TXA(s)
      [] i = "TYA" -> TYA(s) [] i = "TSX" -> TSX(s) [] i = "TXS" -> TXS(s)
      [] i = "EOR" -> EOR(s) [] i = "ORA" -> ORA(s) [] i = "BIT" -> BIT(s)
      [] i = "ADC" -> ADC(s) [] i = "SBC" -> SBC(s) [] i = "CMP" -> CMP(s)
      [] i = "CPX" -> CPX(s) [] i = "CPY" -> CPY(s) [] i = "INY" -> INY(s)
      [] i = "DEC" -> DEC(s) [] i = "DEX" -> DEX(s) [] i = "DEY" -> DEY(s)
      [] i = "ASL" -> ASL(s) [] i = "ASA" -> ASA(s) [] i = "LSR" -> LSR(s)
      [] i = "LSA" -> LSA(s) [] i = "ROL" -> ROL(s) [] i = "ROA" -> ROA(s)
      [] i = "ROR" -> ROR(s) [] i = "RAA" -> RAA(s)
      [] i = "LAX" -> LAX(s) [] i = "SAX" -> SAX(s) [] i = "DCP" -> DCP(s)
      [] i = "ISC" -> ISC(s) [] i = "SLO" -> SLO(s) [] i = "RLA" -> RLA(s)
      [] i = "SRE" -> SRE(s) [] i = "RRA" -> RRA(s)
      [] i = "XXX" -> XXX(s)

(***************************************************************************)
(* CPU: cycle() and step().                                                *)
(***************************************************************************)
\* faulty variant: an extra cycle when either the mode or the instruction
\* asks for one
ExecuteExtraEither(s) ==
    LET Extra(am, ex) ==
            [ex.s EXCEPT !.cpu.cycles = U8(@ + BitOr(am.x, ex.x))]
        Run(inst, am) == Extra(am, Instruction(inst[1], am.s))
        Decode(f, inst) ==
            Run(inst, AddrMode(inst[2], [f.s EXCEPT !.cpu.opcode = f.v,
                                                    !.cpu.cycles = inst[3]]))
        Fetch(f) == Decode(f, opcodeLUT[f.v + 1])
    IN Fetch(FetchPC([s EXCEPT !.cpu.instructionsCounter = @ + 1]))

\* the fetch, decode and execute that cycle() performs when cycles == 0
Execute(s) ==
    LET Extra(am, ex) ==
            [ex.s EXCEPT !.cpu.cycles = U8(@ + BitAnd(am.x, ex.x))]
        Run(inst, am) == Extra(am, Instruction(inst[1], am.s))
        Decode(f, inst) ==
            Run(inst, AddrMode(inst[2], [f.s EXCEPT !.cpu.opcode = f.v,
                                                    !.cpu.cycles = inst[3]]))
        Fetch(f) == Decode(f, opcodeLUT[f.v + 1])
    IN Fetch(FetchPC([s EXCEPT !.cpu.instructionsCounter = @ + 1]))

CpuCycle(s) ==
    LET Count(s1) ==
            IF s1.halted THEN s1
            ELSE [s1 EXCEPT !.cpu.cycles = U8(@ - 1),
                            !.cpu.cyclesCounter = @ + 1]
        Work(s0) == Count(IF s0.cpu.cycles = 0 THEN Execute(s0) ELSE s0)
    IN Work([s EXCEPT !.trace = Append(@, "cpu")])

\* while (cycles > 0) cycle();
RECURSIVE Drain(_)
Drain(s) == IF s.cpu.cycles > 0 THEN Drain(CpuCycle(s)) ELSE s

\* faulty variants: a step() that also completes the instruction it starts;
\* a step() that does not complete the instruction in flight
CpuStepToCompletion(s) == Drain(CpuCycle(Drain(s)))

CpuStepNoDrain(s) == CpuCycle(s)

CpuStep(s) == CpuCycle(Drain(s))

(***************************************************************************)
(* System: reset(), cycle() and the state after construction.              *)
(***************************************************************************)
\* faulty variant: a reset that resets the PPU as well
SysResetWithPpu(s) ==
    CpuReset([s EXCEPT !.clockCounter = 0, !.pendingNmi = FALSE,
                       !.ppu = PpuReset])

SysReset(s) ==
    CpuReset([s EXCEPT !.clockCounter = 0, !.pendingNmi = FALSE])

\* faulty variants: the CPU ticked before the PPU; a pending NMI delivered
\* by the cycle() after the one that raised it; the CPU ticked on every
\* third master tick
SysCycleCpuFirst(s) ==
    LET Bump(s2, s3) ==
            IF s2.halted THEN s2
            ELSE [s3 EXCEPT !.clockCounter = @ + 1,
                            !.trace = Append(@, "clk")]
        Deliver(s2) ==
            Bump(s2, IF s2.pendingNmi
                     THEN [Nmi(s2) EXCEPT !.pendingNmi = FALSE] ELSE s2)
        Ppu(s1) == Deliver(PpuCycle(s1))
        Cpu(s0) == Ppu(IF s.clockCounter % 4 = 0 THEN CpuCycle(s0) ELSE s0)
    IN Cpu([s EXCEPT !.trace = <<>>])

SysCycleNmiLate(s) ==
    LET Bump(s2) ==
            IF s2.halted THEN s2
            ELSE [s2 EXCEPT !.clockCounter = @ + 1,
                            !.trace = Append(@, "clk")]
        Cpu(s1) == Bump(IF s.clockCounter % 4 = 0 THEN CpuCycle(s1) ELSE s1)
        Ppu(s0) == Cpu(PpuCycle(s0))
    IN Ppu(IF s.pendingNmi
           THEN [Nmi(s) EXCEPT !.pendingNmi = FALSE, !.trace = <<>>]
           ELSE [s EXCEPT !.trace = <<>>])

SysCycleEveryThird(s) ==
    LET Bump(s2, s3) ==
            IF s2.halted THEN s2
            ELSE [s3 EXCEPT !.clockCounter = @ + 1,
                            !.trace = Append(@, "clk")]
        Deliver(s2) ==
            Bump(s2, IF s2.pendingNmi
                     THEN [Nmi(s2) EXCEPT !.pendingNmi = FALSE] ELSE s2)
        Cpu(s1) == Deliver(IF s.clockCounter % 3 = 0 THEN CpuCycle(s1) ELSE s1)
    IN Cpu(PpuCycle([s EXCEPT !.trace = <<>>]))

SysCycle(s) ==
    LET Bump(s2, s3) ==
            IF s2.halted THEN s2
            ELSE [s3 EXCEPT !.clockCounter = @ + 1,
                            !.trace = Append(@, "clk")]
        Deliver(s2) ==
            Bump(s2, IF s2.pendingNmi
                     THEN [Nmi(s2) EXCEPT !.pendingNmi = FALSE] ELSE s2)
        Cpu(s1) == Deliver(IF s.clockCounter % 4 = 0 THEN CpuCycle(s1) ELSE s1)
    IN Cpu(PpuCycle([s EXCEPT !.trace = <<>>]))

\* NesSystem::NesSystem: the members' constructors, then reset()
Construct(rom) ==
    SysReset([gpak |-> [nPrgRomBanks |-> rom.nPrgRomBanks,
                        prgRom |-> rom.prgRom, chrRom |-> <<>>],
              mirroring |-> rom.mirroring,
              ram |-> <<>>, vram |-> <<>>, paletteRam |-> <<>>,
              cpu |-> [cycles |-> 0, opcode |-> 255, fetched |-> 0,
                       addr |-> 0, cyclesCounter |-> 0,
                       instructionsCounter |-> 0, r_PC |-> 0, r_SP |-> 0,
                       r_A |-> 0, r_X |-> 0, r_Y |-> 0, r_status |-> 0],
              ppu |-> PpuReset, pendingNmi |-> FALSE, clockCounter |-> 0,
              halted |-> FALSE, trace |-> <<>>, ppuTicks |-> 0,
              nmiEntry |-> -1, ndebug |-> FALSE, report |-> <<>>])

(***************************************************************************)
(* The host.                                                               *)
(***************************************************************************)
(***************************************************************************)
(* The standard controller: NesController.                                 *)
(***************************************************************************)
\* std::array<std::uint8_t, 2> input{}; std::array<bool, 2> readingState{};
NesControllerNew ==
    [input |-> [port \in {P1, P2} |-> 0],
     readingState |-> [port \in {P1, P2} |-> FALSE]]

NesControllerWrite(c, port, reading) ==
    [c EXCEPT !.readingState[port] = reading]

\* read: the bit it returns (v) and the controller it leaves (c)
NesControllerRead(c, port) ==
    [v |-> Bit(c.input[port], 7),
     c |-> [c EXCEPT !.input[port] = U8(@ * 2)]]

SetButton(c, port, button, pressed) ==
    IF c.readingState[port] THEN c
    ELSE [c EXCEPT !.input[port] = IF pressed THEN BitOr(@, button)
                                   ELSE BitAnd(@, 255 - button)]

PadNew ==
    [held |-> 0, latched |-> 0, strobed |-> FALSE, reads |-> 0, ret |-> 0,
     calls |-> 0, fresh |-> TRUE]

Marked(s) ==
    [cycles |-> s.cpu.cyclesCounter, instructions |-> s.cpu.instructionsCounter,
     steps |-> 0, cpuCycles |-> 0, interrupts |-> 0, was |-> s.cpu,
     busCalls |-> 0, addr |-> 0, data |-> 0, ret |-> 0, toggles |-> 0]

\* the host has constructed the system with one of the cartridges
InitFrom(cartridges) ==
    /\ nes \in {Construct(rom) : rom \in cartridges}
    /\ call = "construct"
    /\ prevCall = "construct"
    /\ mode = "idle"
    /\ frameCycles = 0
    /\ warmup = 0
    /\ resets = 0
    /\ mark = Marked(nes)
    /\ controller = NesControllerNew
    /\ pad = PadNew

\* the same, in a build with assertions (ndebug false) or without them
InitBuilds(cartridges) ==
    /\ nes \in {[Construct(rom) EXCEPT !.ndebug = n] :
                   rom \in cartridges, n \in BOOLEAN}
    /\ call = "construct"
    /\ prevCall = "construct"
    /\ mode = "idle"
    /\ frameCycles = 0
    /\ warmup = 0
    /\ resets = 0
    /\ mark = Marked(nes)
    /\ controller = NesControllerNew
    /\ pad = PadNew

InitWith(roms) == InitFrom({Roms[r] : r \in roms})

Init == InitWith(SysRoms)

InitCpu == InitWith(CpuRoms)

InitStack == InitFrom(StackRoms)

InitAlu == InitFrom(AluRoms)

InitRoundTrip == InitFrom(RoundTripRoms)

InitBus == InitBuilds(BusRoms)

InitPpuBus == InitBuilds(PpuRoms)

InitStatus == InitFrom(StatusRoms)

InitReg == InitBuilds({RomIdle})

InitOpcode == InitFrom(OpcodeRoms)

InitEvenOdd == InitFrom(EvenOddRoms)

InitController == InitFrom({RomIdle})

InitReset == InitFrom({RomReset})

InitNmi == InitFrom({RomIdle})

InitToggle == InitFrom({RomIdle})

InitPpuStore == InitFrom(PpuStoreRoms)

InitTiming == InitFrom(BranchRoms \cup IndexedRoms \cup IndirectRoms)

Ready == mode = "idle" /\ ~nes.halted

\* nes.cycle(), called by the host before it runs whole frames
Cycle ==
    /\ Ready
    /\ call \in {"construct", "cycle"}
    /\ warmup < MaxWarmup
    /\ nes.ppuTicks < MaxTicks
    /\ nes' = SysCycle(nes)
    /\ call' = "cycle"
    /\ prevCall' = call
    /\ warmup' = warmup + 1
    /\ UNCHANGED <<controller, pad, mode, frameCycles, resets, mark>>

\* faulty variant: runUntilFrame() as a while loop, which tests the flag
\* before its first cycle
RunUntilFrameWhile ==
    /\ Ready
    /\ nes.ppuTicks < MaxTicks
    /\ nes' = IF nes.ppu.frameCompleted THEN nes ELSE SysCycle(nes)
    /\ call' = "runUntilFrame"
    /\ prevCall' = call
    /\ frameCycles' = IF nes.ppu.frameCompleted THEN 0 ELSE 1
    /\ mode' = IF nes'.ppu.frameCompleted \/ nes'.halted
               THEN "idle" ELSE "frame"
    /\ UNCHANGED <<controller, pad, warmup, resets, mark>>

\* nes.runUntilFrame(): the first iteration of its do-while loop
RunUntilFrame ==
    /\ Ready
    /\ nes.ppuTicks < MaxTicks
    /\ nes' = SysCycle(nes)
    /\ call' = "runUntilFrame"
    /\ prevCall' = call
    /\ frameCycles' = 1
    /\ mode' = IF nes'.ppu.frameCompleted \/ nes'.halted
               THEN "idle" ELSE "frame"
    /\ UNCHANGED <<controller, pad, warmup, resets, mark>>

\* nes.runUntilFrame(): a further iteration of its loop
FrameLoop ==
    /\ mode = "frame"
    /\ nes.ppuTicks < MaxTicks
    /\ nes' = SysCycle(nes)
    /\ frameCycles' = frameCycles + 1
    /\ mode' = IF nes'.ppu.frameCompleted \/ nes'.halted
               THEN "idle" ELSE "frame"
    /\ UNCHANGED <<controller, pad, call, prevCall, warmup, resets, mark>>

\* nes.reset(), called on a machine that has run
Reset ==
    /\ Ready
    /\ call \in {"runUntilFrame", "step", "cpu.cycle"}
    /\ resets < MaxResets
    /\ nes' = SysReset(nes)
    /\ call' = "reset"
    /\ prevCall' = call
    /\ resets' = resets + 1
    /\ mark' = Marked(nes')
    /\ UNCHANGED <<controller, pad, mode, frameCycles, warmup>>

\* nes.cpu.step()
Step ==
    /\ Ready
    /\ nes.cpu.cyclesCounter < MaxCpuCycles
    /\ nes' = CpuStep(nes)
    /\ call' = "step"
    /\ prevCall' = call
    /\ mark' = [mark EXCEPT !.steps = @ + 1, !.was = nes.cpu]
    /\ UNCHANGED <<controller, pad, mode, frameCycles, warmup, resets>>

\* nes.cpu.cycle()
Tick ==
    /\ Ready
    /\ nes.cpu.cyclesCounter < MaxCpuCycles
    /\ nes' = CpuCycle(nes)
    /\ call' = "cpu.cycle"
    /\ prevCall' = call
    /\ mark' = [mark EXCEPT !.cpuCycles = @ + 1, !.was = nes.cpu]
    /\ UNCHANGED <<controller, pad, mode, frameCycles, warmup, resets>>

\* nes.cpu.step(), in a run of the stack programs
StackStep ==
    /\ Ready
    /\ nes.cpu.cyclesCounter < MaxStackCycles
    /\ nes' = CpuStep(nes)
    /\ call' = "step"
    /\ prevCall' = call
    /\ mark' = [mark EXCEPT !.steps = @ + 1, !.was = nes.cpu]
    /\ UNCHANGED <<controller, pad, mode, frameCycles, warmup, resets>>

\* nes.cpu.cycle(), in a run of the timing programs
TimingTick ==
    /\ Ready
    /\ nes.cpu.cyclesCounter < MaxTimingCycles
    /\ nes' = CpuCycle(nes)
    /\ call' = "cpu.cycle"
    /\ prevCall' = call
    /\ mark' = [mark EXCEPT !.cpuCycles = @ + 1, !.was = nes.cpu]
    /\ UNCHANGED <<controller, pad, mode, frameCycles, warmup, resets>>

\* nes.cpu.step(), in a run of the arithmetic programs
AluStep ==
    /\ Ready
    /\ nes.cpu.instructionsCounter < MaxAluSteps
    /\ nes' = CpuStep(nes)
    /\ call' = "step"
    /\ prevCall' = call
    /\ mark' = [mark EXCEPT !.steps = @ + 1, !.was = nes.cpu]
    /\ UNCHANGED <<controller, pad, mode, frameCycles, warmup, resets>>

\* nes.cpu.step(), in a run of the round-trip programs
RoundTripStep ==
    /\ Ready
    /\ nes.cpu.instructionsCounter < MaxRoundTripSteps
    /\ nes' = CpuStep(nes)
    /\ call' = "step"
    /\ prevCall' = call
    /\ mark' = [mark EXCEPT !.steps = @ + 1, !.was = nes.cpu]
    /\ UNCHANGED <<controller, pad, mode, frameCycles, warmup, resets>>

\* nes.cpuBusWrite(a, d), a and d of the host's choice
CpuBusWriteCall(addresses, bytes, most) ==
    \E a \in addresses, d \in bytes :
        /\ Ready
        /\ mark.busCalls < most
        /\ nes' = CpuBusWrite(nes, a, d)
        /\ call' = "cpuBusWrite"
        /\ prevCall' = call
        /\ mark' = [mark EXCEPT !.busCalls = @ + 1, !.addr = a, !.data = d,
                                !.was = nes.cpu]
        /\ UNCHANGED <<controller, pad, mode, frameCycles, warmup, resets>>

\* nes.cpuBusRead(a): the byte returned is kept in mark.ret
CpuBusReadCall(addresses, most) ==
    \E a \in addresses :
        /\ Ready
        /\ mark.busCalls < most
        /\ nes' = CpuBusRead(nes, a).s
        /\ call' = "cpuBusRead"
        /\ prevCall' = call
        /\ mark' = [mark EXCEPT !.busCalls = @ + 1, !.addr = a,
                                !.ret = CpuBusRead(nes, a).v,
                                !.was = nes.cpu]
        /\ UNCHANGED <<controller, pad, mode, frameCycles, warmup, resets>>

\* nes.ppuBusWrite(a, d), a and d of the host's choice
PpuBusWriteCall(addresses, bytes, most) ==
    \E a \in addresses, d \in bytes :
        /\ Ready
        /\ mark.busCalls < most
        /\ nes' = PpuBusWrite(nes, a, d)
        /\ call' = "ppuBusWrite"
        /\ prevCall' = call
        /\ mark' = [mark EXCEPT !.busCalls = @ + 1, !.addr = a, !.data = d,
                                !.was = nes.cpu]
        /\ UNCHANGED <<controller, pad, mode, frameCycles, warmup, resets>>

\* nes.cycle(), in a run that reads the PPU status
StatusCycle ==
    /\ Ready
    /\ nes.ppuTicks < MaxStatusTicks
    /\ nes' = SysCycle(nes)
    /\ call' = "cycle"
    /\ prevCall' = call
    /\ UNCHANGED <<controller, pad, mode, frameCycles, warmup, resets, mark>>

\* nes.cycle(), in a run of SpecNmi
NmiCycle ==
    /\ Ready
    /\ nes.ppuTicks < MaxNmiTicks
    /\ nes' = SysCycle(nes)
    /\ call' = "cycle"
    /\ prevCall' = call
    /\ UNCHANGED <<controller, pad, mode, frameCycles, warmup, resets, mark>>

\* nes.cpuBusWrite(0x2000, 0x80) after one of the chosen numbers of ticks
NmiEnable ==
    /\ nes.ppuTicks \in EnableTicks
    /\ CpuBusWriteCall({CPU_PPU_START}, {128}, MaxNmiEnables)

\* nes.reset() after one of the chosen numbers of ticks
ResetAt ==
    /\ Ready
    /\ nes.ppuTicks \in ResetTicks
    /\ resets < MaxResets
    /\ nes' = SysReset(nes)
    /\ call' = "reset"
    /\ prevCall' = call
    /\ resets' = resets + 1
    /\ mark' = Marked(nes')
    /\ UNCHANGED <<controller, pad, mode, frameCycles, warmup>>

\* controller.write(P1, reading); a write of true is the strobe
PadWrite ==
    \E reading \in BOOLEAN :
        /\ pad.calls < MaxControllerCalls
        /\ controller' = NesControllerWrite(controller, P1, reading)
        /\ pad' = IF reading
                  THEN [pad EXCEPT !.calls = @ + 1, !.latched = pad.held,
                                   !.strobed = TRUE, !.reads = 0]
                  ELSE [pad EXCEPT !.calls = @ + 1]
        /\ call' = "controller.write"
        /\ prevCall' = call
        /\ UNCHANGED <<nes, mode, frameCycles, warmup, resets, mark>>

\* controller.read(P1)
PadRead ==
    /\ pad.calls < MaxControllerCalls
    /\ controller' = NesControllerRead(controller, P1).c
    /\ pad' = [pad EXCEPT !.calls = @ + 1, !.reads = @ + 1,
                          !.ret = NesControllerRead(controller, P1).v,
                          !.fresh = FALSE]
    /\ call' = "controller.read"
    /\ prevCall' = call
    /\ UNCHANGED <<nes, mode, frameCycles, warmup, resets, mark>>

\* controller.setButton(P1, button, pressed), as the player presses or
\* releases a button
PadSetButton ==
    \E button \in {ButtonA, ButtonRight}, pressed \in BOOLEAN :
        /\ pad.calls < MaxControllerCalls
        /\ controller' = SetButton(controller, P1, button, pressed)
        /\ pad' = [pad EXCEPT
                      !.calls = @ + 1,
                      !.held = IF pressed THEN BitOr(@, button)
                               ELSE BitAnd(@, 255 - button),
                      !.fresh = @ /\ ~controller.readingState[P1]]
        /\ call' = "controller.setButton"
        /\ prevCall' = call
        /\ UNCHANGED <<nes, mode, frameCycles, warmup, resets, mark>>

\* nes.cpuBusRead(0x2002) after one of the chosen numbers of ticks
StatusPoll ==
    /\ nes.ppuTicks \in StatusTicks
    /\ CpuBusReadCall({CPU_PPU_START + 2}, MaxStatusReads)

\* the host's accesses to the PPU address and data registers: the address
\* written, the increment set to 32, a byte written through $2007, then
\* $2007 and $2002 read, and a byte stored on the PPU bus
RegWrite ==
    \/ CpuBusWriteCall({CPU_PPU_START + 6}, AddressBytes, MaxRegCalls)
    \/ CpuBusWriteCall({CPU_PPU_START}, {4}, MaxRegCalls)
    \/ CpuBusWriteCall({CPU_PPU_START + 7}, {60}, MaxRegCalls)

RegRead == CpuBusReadCall({CPU_PPU_START + 2, CPU_PPU_START + 7}, MaxRegCalls)

RegStore == PpuBusWriteCall(StoreAddresses, StoreBytes, MaxRegCalls)

PpuWrite == PpuBusWriteCall(PpuAddresses, PpuBytes, MaxPpuCalls)

\* nes.cpuBusWrite($2005 or $2006, d): mark.toggles counts these writes
\* since the last read of $2002
ToggleWrite ==
    \E a \in {CPU_PPU_START + 5, CPU_PPU_START + 6}, d \in AddressBytes :
        /\ Ready
        /\ mark.busCalls < MaxToggleCalls
        /\ nes' = CpuBusWrite(nes, a, d)
        /\ call' = "cpuBusWrite"
        /\ prevCall' = call
        /\ mark' = [mark EXCEPT !.busCalls = @ + 1, !.addr = a, !.data = d,
                                !.toggles = @ + 1, !.was = nes.cpu]
        /\ UNCHANGED <<controller, pad, mode, frameCycles, warmup, resets>>

\* nes.cpuBusRead($2002)
ToggleRead ==
    /\ Ready
    /\ mark.busCalls < MaxToggleCalls
    /\ nes' = CpuBusRead(nes, CPU_PPU_START + 2).s
    /\ call' = "cpuBusRead"
    /\ prevCall' = call
    /\ mark' = [mark EXCEPT !.busCalls = @ + 1, !.addr = CPU_PPU_START + 2,
                            !.ret = CpuBusRead(nes, CPU_PPU_START + 2).v,
                            !.toggles = 0, !.was = nes.cpu]
    /\ UNCHANGED <<controller, pad, mode, frameCycles, warmup, resets>>

BusWrite == CpuBusWriteCall(BusAddresses, BusBytes, MaxBusCalls)

BusRead == CpuBusReadCall(BusAddresses, MaxBusCalls)

\* cpu.getOpcode() != 0x00
IsRunning(s) == s.cpu.opcode # 0

\* nes.step(); while (nes.isRunning()) nes.step();
EmulateStep ==
    /\ Ready
    /\ mark.steps = 0 \/ IsRunning(nes)
    /\ mark.steps < MaxEmulateSteps
    /\ nes' = CpuStep(nes)
    /\ call' = "step"
    /\ prevCall' = call
    /\ mark' = [mark EXCEPT !.steps = @ + 1, !.was = nes.cpu]
    /\ UNCHANGED <<controller, pad, mode, frameCycles, warmup, resets>>

\* one turn of the host loop around step(): what the loop's own control
\* flow decides, without the work of the step
EmulateTurn ==
    /\ Ready
    /\ mark.steps = 0 \/ IsRunning(nes)
    /\ mark.steps < MaxEmulateSteps
    /\ mark' = [mark EXCEPT !.steps = @ + 1, !.was = nes.cpu]

\* nes.cpu.irq()
IrqCall ==
    /\ Ready
    /\ mark.interrupts < MaxInterrupts
    /\ nes' = Irq(nes)
    /\ call' = "irq"
    /\ prevCall' = call
    /\ mark' = [mark EXCEPT !.interrupts = @ + 1, !.was = nes.cpu]
    /\ UNCHANGED <<controller, pad, mode, frameCycles, warmup, resets>>

\* nes.cpu.nmi()
NmiCall ==
    /\ Ready
    /\ mark.interrupts < MaxInterrupts
    /\ nes' = Nmi(nes)
    /\ call' = "nmi"
    /\ prevCall' = call
    /\ mark' = [mark EXCEPT !.interrupts = @ + 1, !.was = nes.cpu]
    /\ UNCHANGED <<controller, pad, mode, frameCycles, warmup, resets>>

\* the system driven by its master clock
Next == Cycle \/ RunUntilFrame \/ FrameLoop \/ Reset

Spec == Init /\ [][Next]_vars

\* the CPU driven on its own
NextCpu == Step \/ Tick \/ Reset

SpecCpu == InitCpu /\ [][NextCpu]_vars

\* the CPU driven through the stack programs, interrupted by the host
NextStack == StackStep \/ IrqCall \/ NmiCall

SpecStack == InitStack /\ [][NextStack]_vars

\* the CPU stepped through the arithmetic programs
NextAlu == AluStep

SpecAlu == InitAlu /\ [][NextAlu]_vars

\* the host reading and writing the CPU bus
NextBus == BusWrite \/ BusRead

SpecBus == InitBus /\ [][NextBus]_vars

\* the host's loop around step(), which does not stop while it may go on
NextEvenOdd == EmulateStep

SpecEvenOdd ==
    InitEvenOdd /\ [][NextEvenOdd]_vars /\ WF_mark(EmulateTurn)

\* the host writing the scroll and address registers and reading the status
NextToggle == ToggleWrite \/ ToggleRead

SpecToggle == InitToggle /\ [][NextToggle]_vars

\* the host running the system and setting GenerateNMI around VBlank
NextNmi == NmiCycle \/ NmiEnable

SpecNmi == InitNmi /\ [][NextNmi]_vars

\* the host running the system and resetting it
NextReset == NmiCycle \/ ResetAt

SpecReset == InitReset /\ [][NextReset]_vars

\* the host and the player using the controller of port 1
NextController == PadWrite \/ PadRead \/ PadSetButton

SpecController == InitController /\ [][NextController]_vars

\* the CPU stepped through the programs that store to PPUDATA
NextPpuStore == StackStep

SpecPpuStore == InitPpuStore /\ [][NextPpuStore]_vars

\* the CPU stepped through one instruction of every opcode and what follows
NextOpcode == Step

SpecOpcode == InitOpcode /\ [][NextOpcode]_vars

\* the host driving the PPU address and data registers
NextReg == RegWrite \/ RegRead \/ RegStore

SpecReg == InitReg /\ [][NextReg]_vars

\* the host running the system and reading the PPU status
NextStatus == StatusCycle \/ StatusPoll

SpecStatus == InitStatus /\ [][NextStatus]_vars

\* the host writing the PPU bus
NextPpuBus == PpuWrite

SpecPpuBus == InitPpuBus /\ [][NextPpuBus]_vars

\* the CPU stepped through the round-trip programs
NextRoundTrip == RoundTripStep

SpecRoundTrip == InitRoundTrip /\ [][NextRoundTrip]_vars

\* the CPU driven cycle by cycle through the timing programs
NextTiming == TimingTick

SpecTiming == InitTiming /\ [][NextTiming]_vars

(***************************************************************************)
(* Properties.                                                             *)
(***************************************************************************)
\* the state is the one a cycle() of the master clock has just left
AfterCycle == call \in {"cycle", "runUntilFrame"} /\ ~nes.halted

\* the step is one cycle() of the master clock
IsCycle == nes'.ppuTicks = nes.ppuTicks + 1

\* the word of the cartridge at vector a
Vector(a) == PrgRomRead(nes, a + 1) * 256 + PrgRomRead(nes, a)

\* C1: every cycle() performs its effects in the order PPU tick, CPU tick
\* (exactly when the master counter it started from is a multiple of 4),
\* NMI delivery with the pending flag cleared, counter increment.
C1_CycleOrder ==
    AfterCycle =>
        /\ nes.trace \in {<<"ppu", "clk">>, <<"ppu", "cpu", "clk">>,
                          <<"ppu", "nmi", "clk">>,
                          <<"ppu", "cpu", "nmi", "clk">>}
        /\ (nes.trace[2] = "cpu") <=> ((nes.clockCounter - 1) % 4 = 0)
        /\ ~nes.pendingNmi

C1_Witness ==
    AfterCycle /\ nes.trace = <<"ppu", "cpu", "nmi", "clk">>

\* C2: nmi() is entered only when the CPU is Idle, that is when the
\* remaining-cycle counter of the current instruction is 0.
C2_NmiOnlyWhenIdle == nes.nmiEntry \in {-1, 0}

C4_ClockRatio ==
    (resets = 0 /\ ~nes.halted) =>
        /\ nes.ppuTicks = nes.clockCounter
        /\ nes.cpu.cyclesCounter = (nes.clockCounter + 3) \div 4

C4_Witness ==
    /\ resets = 0
    /\ nes.clockCounter = 89342 + 2
    /\ nes.cpu.cyclesCounter = 22336

\* the scanline the PPU is on after n ticks, 261 being stored as -1
LineOf(n) ==
    IF (n \div CYCLES_PER_SCANLINE) % SCANLINES_PER_FRAME
           = SCANLINES_PER_FRAME - 1
    THEN -1
    ELSE (n \div CYCLES_PER_SCANLINE) % SCANLINES_PER_FRAME

\* C5: after n PPU ticks dot = n mod 341 and scanline = (n div 341) mod 262
\* (261 as -1), the two stay in [0, 340] and [-1, 260], and the scanline
\* changes exactly in the ticks that wrap the dot from 340 to 0.
C5_FrameClock ==
    /\ [](/\ nes.ppu.cycles = nes.ppuTicks % CYCLES_PER_SCANLINE
          /\ nes.ppu.scanline = LineOf(nes.ppuTicks)
          /\ nes.ppu.cycles \in 0 .. 340
          /\ nes.ppu.scanline \in -1 .. 260)
    /\ [][(nes'.ppu.scanline # nes.ppu.scanline)
            <=> (nes.ppu.cycles = 340 /\ nes'.ppu.cycles = 0)]_vars

C5_Witness ==
    /\ nes.ppuTicks = 2 * 89342 - 341
    /\ nes.ppu.scanline = -1 /\ nes.ppu.cycles = 0

\* C6: the tick that enters the pre-render scanline leaves VBlank, sprite-0
\* hit and sprite overflow clear and frame_completed true, and every tick
\* that leaves frame_completed true is such a tick.
C6_PreRender ==
    [][(IsCycle /\ ~nes'.halted) =>
          /\ (nes.ppu.scanline = 260 /\ nes.ppu.cycles = 340) =>
                 /\ nes'.ppu.scanline = -1
                 /\ nes'.ppu.r_PPUSTATUS \div 32 = 0
                 /\ nes'.ppu.frameCompleted
          /\ nes'.ppu.frameCompleted =>
                 (nes.ppu.scanline = 260 /\ nes.ppu.cycles = 340)]_vars

C6_Witness ==
    /\ nes.ppu.frameCompleted
    /\ nes.ppu.scanline = -1
    /\ nes.ppu.frameCounter = 2
    /\ nes.ppu.r_PPUSTATUS = 0

\* C7: a runUntilFrame() performs at least one and at most 262*341 cycles,
\* has returned by then, returns in the first state in which the PPU
\* reports frame_completed, and follows a previous runUntilFrame() by
\* exactly 262*341 cycles.
C7_RunUntilFrame ==
    (call = "runUntilFrame" /\ ~nes.halted) =>
        /\ frameCycles >= 1
        /\ frameCycles <= SCANLINES_PER_FRAME * CYCLES_PER_SCANLINE
        /\ mode = "frame" =>
               /\ ~nes.ppu.frameCompleted
               /\ frameCycles < SCANLINES_PER_FRAME * CYCLES_PER_SCANLINE
        /\ mode = "idle" =>
               /\ nes.ppu.frameCompleted
               /\ nes.ppu.scanline = -1 /\ nes.ppu.cycles = 0
               /\ prevCall = "runUntilFrame" =>
                      frameCycles = SCANLINES_PER_FRAME * CYCLES_PER_SCANLINE

C7_Witness ==
    /\ call = "runUntilFrame" /\ prevCall = "runUntilFrame"
    /\ mode = "idle"
    /\ frameCycles = 89342

\* the bytes the first instruction after reset occupies
FirstLen ==
    LET m == opcodeLUT[PrgRomRead(nes, Vector(65532)) + 1][2]
    IN CASE m = "IMP" -> 1 [] m = "IMM" -> 2 [] m = "ABS" -> 3

\* the base cycle cost of the first instruction after reset
FirstCost == opcodeLUT[PrgRomRead(nes, Vector(65532)) + 1][3]

\* the CPU has only been driven by n cycle() calls since its last reset
OnlyCycles(n) == mark.steps = 0 /\ mark.cpuCycles = n

\* C8 as stated: after reset() SP is 0xFD, PC is the word at 0xFFFC, the
\* status register holds U = 1 and every other bit 0, and the first opcode
\* is fetched by the 8th cycle() that follows.
C8_ResetStatusUSet ==
    /\ call \in {"construct", "reset"} =>
           /\ nes.cpu.r_SP = 253
           /\ nes.cpu.r_PC = Vector(65532)
           /\ nes.cpu.r_status = Pow2(U)
    /\ \A n \in 0 .. 7 : OnlyCycles(n) =>
           nes.cpu.instructionsCounter = mark.instructions
    /\ OnlyCycles(8) =>
           nes.cpu.instructionsCounter = mark.instructions + 1

\* C8 amended: after reset() SP is 0xFD, PC is the word at 0xFFFC, every
\* bit of the status register is 0, U included, and the first opcode is
\* fetched by the 8th cycle() that follows: the 7 before it fetch nothing.
C8_ResetState ==
    /\ call \in {"construct", "reset"} =>
           /\ nes.cpu.r_SP = 253
           /\ nes.cpu.r_PC = Vector(65532)
           /\ nes.cpu.r_status = 0
    /\ \A n \in 0 .. 7 : OnlyCycles(n) =>
           /\ nes.cpu.instructionsCounter = mark.instructions
           /\ nes.cpu.r_PC = Vector(65532)
           /\ nes.cpu.cycles = 7 - n
    /\ OnlyCycles(8) =>
           /\ nes.cpu.instructionsCounter = mark.instructions + 1
           /\ nes.cpu.r_PC = Vector(65532) + FirstLen

C8_Witness ==
    /\ resets = 1
    /\ mark.instructions > 0
    /\ OnlyCycles(8)
    /\ nes.cpu.instructionsCounter = mark.instructions + 1
    /\ nes.cpu.r_status \in {0, Pow2(Z), Pow2(N)}

\* the state is the one the first step() after a reset has left
FirstStep == call = "step" /\ mark.steps = 1 /\ mark.cpuCycles = 0

\* C9 as stated: the first step() after reset leaves PC just past the first
\* instruction and the cycle counter 7 plus the full cost of that
\* instruction further, the instruction having completed.
C9_StepCompletesInstruction ==
    FirstStep =>
        /\ nes.cpu.r_PC = Vector(65532) + FirstLen
        /\ nes.cpu.cyclesCounter = mark.cycles + 7 + FirstCost
        /\ nes.cpu.cycles = 0

\* C9 amended: the first step() after reset leaves PC just past the first
\* instruction and the cycle counter 7 + 1 further whatever the instruction
\* costs: step() returns after the cycle that fetches and executes it, the
\* rest of its cost (cost - 1 cycles) still to elapse.
C9_StepAfterReset ==
    FirstStep =>
        /\ nes.cpu.r_PC = Vector(65532) + FirstLen
        /\ nes.cpu.instructionsCounter = mark.instructions + 1
        /\ nes.cpu.cyclesCounter = mark.cycles + 7 + 1
        /\ nes.cpu.cycles = FirstCost - 1

C9_Witness ==
    /\ FirstStep
    /\ Vector(65532) = 49152
    /\ nes.cpu.opcode = 234
    /\ nes.cpu.r_PC = 49153
    /\ nes.cpu.cyclesCounter = mark.cycles + 8
    /\ nes.cpu.cycles = 1

\* C10: every step(), whether the CPU is Idle or has an instruction in
\* flight, fetches exactly one opcode, so that k step() calls after a reset
\* leave the instruction counter k above its value at the reset.
C10_StepFetchesOne ==
    /\ [][(mark'.steps = mark.steps + 1) =>
             (nes'.cpu.instructionsCounter
                  = nes.cpu.instructionsCounter + 1)]_vars
    /\ [](mark.cpuCycles = 0 =>
             nes.cpu.instructionsCounter = mark.instructions + mark.steps)

C10_Witness ==
    /\ call = "step" /\ prevCall = "cpu.cycle"
    /\ mark.steps = 1 /\ mark.cpuCycles = 8
    /\ nes.cpu.instructionsCounter = mark.instructions + 2

\* the byte in slot sp (mod 256) of the stack page of machine s
StackAt(s, sp) == RamRead(s.ram, RAM_SIZE, STACK_PAGE + U8(sp))

\* the step is a call of irq(), of nmi()
IsIrqCall == call' = "irq" /\ mark'.interrupts = mark.interrupts + 1

IsNmiCall == call' = "nmi" /\ mark'.interrupts = mark.interrupts + 1

\* the step fetches and executes the instruction of opcode op
IsExec(op) ==
    /\ nes'.cpu.instructionsCounter = nes.cpu.instructionsCounter + 1
    /\ nes'.cpu.opcode = op

\* the flags of status byte p other than B and U agree with those of q
SameFlags(p, q) == \A k \in {C, Z, I, D, V, N} : Bit(p, k) = Bit(q, k)

\* the interrupt entry sequence as C11 states it, from nes to nes'
EntrySequence(vector, cyc) ==
    /\ StackAt(nes', nes.cpu.r_SP) = nes.cpu.r_PC \div 256
    /\ StackAt(nes', nes.cpu.r_SP - 1) = nes.cpu.r_PC % 256
    /\ StackAt(nes', nes.cpu.r_SP - 2)
           = SetBit(SetBit(nes.cpu.r_status, B, FALSE), U, TRUE)
    /\ Bit(nes'.cpu.r_status, I) = 1
    /\ nes'.cpu.r_SP = U8(nes.cpu.r_SP - 3)
    /\ nes'.cpu.r_PC = Vector(vector)
    /\ nes'.cpu.cycles = cyc

\* C11: irq() with I = 0, and nmi() always, push PC high, PC low and then
\* the status with B = 0, U = 1 and every other bit, I included, as it was
\* before the interrupt; I is set after that push, SP drops by 3, PC is
\* loaded from the vector and 7 (IRQ) or 8 (NMI) cycles remain.
C11_InterruptEntry ==
    [][/\ (IsIrqCall /\ Bit(nes.cpu.r_status, I) = 0) =>
              EntrySequence(65534, 7)
       /\ IsNmiCall => EntrySequence(65530, 8)]_vars

\* C12: irq() called while I = 1 changes nothing: PC, SP, A, X, Y, the
\* status, the remaining-cycle counter and all memory are as before; nmi()
\* called while I = 1 is taken all the same.
C12_IrqMasked ==
    [][/\ (IsIrqCall /\ Bit(nes.cpu.r_status, I) = 1) =>
              /\ nes'.cpu = nes.cpu
              /\ nes'.ram = nes.ram
              /\ nes'.vram = nes.vram
              /\ nes'.paletteRam = nes.paletteRam
              /\ nes'.ppu = nes.ppu
       /\ (IsNmiCall /\ Bit(nes.cpu.r_status, I) = 1) =>
              /\ nes'.cpu.r_PC = Vector(65530)
              /\ nes'.cpu.r_SP = U8(nes.cpu.r_SP - 3)
              /\ nes'.cpu.cycles = 8
              /\ StackAt(nes', nes.cpu.r_SP) = nes.cpu.r_PC \div 256
              /\ StackAt(nes', nes.cpu.r_SP - 1) = nes.cpu.r_PC % 256]_vars

C12_Witness ==
    /\ call = "irq" /\ prevCall = "step"
    /\ Bit(mark.was.r_status, I) = 1
    /\ mark.was.cycles > 0
    /\ nes.cpu = mark.was
    /\ nes.cpu.r_PC # Vector(65534)

\* C13: executing BRK pushes a status byte with B = 1 and U = 1 and with I
\* as it was before the BRK, sets I after that push and loads PC from the
\* vector at $FFFE, whatever I was.
C13_BrkPushesB ==
    [][IsExec(0) =>
          /\ Bit(StackAt(nes', nes.cpu.r_SP - 2), B) = 1
          /\ Bit(StackAt(nes', nes.cpu.r_SP - 2), U) = 1
          /\ Bit(StackAt(nes', nes.cpu.r_SP - 2), I) = Bit(nes.cpu.r_status, I)
          /\ Bit(nes'.cpu.r_status, I) = 1
          /\ nes'.cpu.r_PC = Vector(65534)]_vars

\* C14: after PLP or RTI the live status has B = 0 and U = 0 and its flags
\* C, Z, I, D, V, N are those of the byte pulled; PHP leaves the live status
\* as it was and pushes it with B and U set.
C14_PullClearsBU ==
    [][/\ (IsExec(40) \/ IsExec(64)) =>
              /\ Bit(nes'.cpu.r_status, B) = 0
              /\ Bit(nes'.cpu.r_status, U) = 0
              /\ SameFlags(nes'.cpu.r_status,
                           StackAt(nes, nes.cpu.r_SP + 1))
       /\ IsExec(8) =>
              /\ nes'.cpu.r_status = nes.cpu.r_status
              /\ StackAt(nes', nes.cpu.r_SP)
                     = SetBit(SetBit(nes.cpu.r_status, B, TRUE), U, TRUE)]_vars

\* the step executes opcode op right after a step that executed opcode
\* before, mark.was being the CPU as it was ahead of the two
IsExecAfter(op, before) ==
    IsExec(op) /\ call = "step" /\ nes.cpu.opcode = before

\* C15: PHA immediately followed by PLA restores A and SP, and PHP
\* immediately followed by PLP restores SP and the flags C, Z, I, D, V, N,
\* for every A, status and SP, the pointer wrapping at $00 and $FF.
C15_StackRoundTrip ==
    [][/\ IsExecAfter(104, 72) =>
              /\ nes'.cpu.r_A = mark.was.r_A
              /\ nes'.cpu.r_SP = mark.was.r_SP
       /\ IsExecAfter(40, 8) =>
              /\ nes'.cpu.r_SP = mark.was.r_SP
              /\ SameFlags(nes'.cpu.r_status, mark.was.r_status)]_vars

C15_Witness ==
    /\ call = "step" /\ prevCall = "step"
    /\ nes.cpu.opcode = 104 /\ mark.was.opcode = 72
    /\ nes.cpu.r_A = 255 /\ nes.cpu.r_SP = 0
    /\ mark.was.r_SP = 255
    /\ StackAt(nes, 0) = 255

\* the 16-bit little-endian word at CPU address a
WordAt(a) == CpuBusRead(nes, U16(a + 1)).v * 256 + CpuBusRead(nes, a).v

\* C16: JSR at p pushes p + 2, high byte first, and jumps to its operand;
\* the RTS that finds the stack as JSR left it pulls low then high, adds 1
\* and resumes at p + 3 with SP as before the JSR; RTI pulls the status,
\* then PC low and PC high, and adds nothing.
C16_JsrRtsRoundTrip ==
    [][/\ IsExec(32) =>
              /\ StackAt(nes', nes.cpu.r_SP) = U16(nes.cpu.r_PC + 2) \div 256
              /\ StackAt(nes', nes.cpu.r_SP - 1) = U16(nes.cpu.r_PC + 2) % 256
              /\ nes'.cpu.r_SP = U8(nes.cpu.r_SP - 2)
              /\ nes'.cpu.r_PC = WordAt(nes.cpu.r_PC + 1)
       /\ IsExec(96) =>
              /\ nes'.cpu.r_PC = U16(StackAt(nes, nes.cpu.r_SP + 2) * 256
                                     + StackAt(nes, nes.cpu.r_SP + 1) + 1)
              /\ nes'.cpu.r_SP = U8(nes.cpu.r_SP + 2)
       /\ IsExecAfter(96, 32) =>
              /\ nes'.cpu.r_PC = U16(mark.was.r_PC + 3)
              /\ nes'.cpu.r_SP = mark.was.r_SP
       /\ IsExec(64) =>
              /\ SameFlags(nes'.cpu.r_status, StackAt(nes, nes.cpu.r_SP + 1))
              /\ nes'.cpu.r_PC = StackAt(nes, nes.cpu.r_SP + 3) * 256
                                 + StackAt(nes, nes.cpu.r_SP + 2)
              /\ nes'.cpu.r_SP = U8(nes.cpu.r_SP + 3)]_vars

C16_Witness ==
    /\ call = "step" /\ prevCall = "step"
    /\ nes.cpu.opcode = 96 /\ mark.was.opcode = 32
    /\ nes.cpu.r_PC = 32784 /\ nes.cpu.r_SP = 0
    /\ StackAt(nes, 0) = 128 /\ StackAt(nes, 255) = 15

\* the branch of opcode op is taken under status byte p
BranchTaken(op, p) ==
    CASE op = 16 -> Bit(p, N) = 0
      [] op = 48 -> Bit(p, N) = 1
      [] op = 80 -> Bit(p, V) = 0
      [] op = 112 -> Bit(p, V) = 1
      [] op = 144 -> Bit(p, C) = 0
      [] op = 176 -> Bit(p, C) = 1
      [] op = 208 -> Bit(p, Z) = 0
      [] op = 240 -> Bit(p, Z) = 1

\* the address following the branch at the PC of nes, and the address its
\* offset leads to
BranchNext == U16(nes.cpu.r_PC + 2)

BranchTarget ==
    U16(BranchNext + Int8(CpuBusRead(nes, U16(nes.cpu.r_PC + 1)).v))

\* the cycles the instruction that the step fetches takes in all: the
\* fetching cycle() and the ones left to count down
TotalCycles == nes'.cpu.cycles + 1

\* a cycle() fetches exactly when no cycle of the instruction in flight is
\* left, and otherwise only counts one cycle down
CycleCountsDown ==
    call' = "cpu.cycle" =>
        IF nes.cpu.cycles = 0
        THEN nes'.cpu.instructionsCounter = nes.cpu.instructionsCounter + 1
        ELSE /\ nes'.cpu.cycles = nes.cpu.cycles - 1
             /\ nes'.cpu.instructionsCounter = nes.cpu.instructionsCounter
             /\ nes'.cpu.r_PC = nes.cpu.r_PC

BranchTiming(op) ==
    IsExec(op) =>
        IF ~BranchTaken(op, nes.cpu.r_status)
        THEN TotalCycles = 2 /\ nes'.cpu.r_PC = BranchNext
        ELSE /\ nes'.cpu.r_PC = BranchTarget
             /\ TotalCycles =
                    IF PageOf(BranchTarget) = PageOf(BranchNext) THEN 3 ELSE 4

\* C17: a branch takes 2 cycles when not taken, 3 when taken to the page of
\* the address following it and 4 when taken to another page; a taken branch
\* sets PC to the address following it plus the signed offset, mod 2^16
C17_BranchTiming ==
    [][CycleCountsDown /\ \A op \in BranchOpcodes : BranchTiming(op)]_vars

\* a branch at $FFF0 taken beyond $FFFF, to $0071, has been counted down to
\* its end: four cycles after the seven of the reset and the twelve of the
\* instructions before it
C17_Witness ==
    /\ nes.cpu.opcode \in BranchOpcodes
    /\ nes.cpu.cycles = 0
    /\ nes.cpu.r_PC = 113
    /\ nes.cpu.cyclesCounter = mark.cycles + 23

\* the instructions that only read their operand
ReadInstructions ==
    {"LDA", "LDX", "LDY", "AND", "ORA", "EOR", "ADC", "SBC", "CMP", "LAX",
     "NOP"}

\* the byte and the little-endian word the bus of nes holds at address a
ByteAt(a) == CpuBusRead(nes, U16(a)).v

\* the address the instruction at the PC of nes indexes, before the index
\* is added, under mode m
BaseAddress(m) ==
    IF m = "IZY"
    THEN ByteAt(U8(ByteAt(nes.cpu.r_PC + 1) + 1)) * 256
         + ByteAt(ByteAt(nes.cpu.r_PC + 1))
    ELSE ByteAt(nes.cpu.r_PC + 2) * 256 + ByteAt(nes.cpu.r_PC + 1)

\* the indexed address lies in another page than the address it indexes
PageCrossed(m) ==
    PageOf(U16(BaseAddress(m)
               + (IF m = "ABX" THEN nes.cpu.r_X ELSE nes.cpu.r_Y)))
        # PageOf(BaseAddress(m))

\* the cycles of the instruction inst = <<name, mode, base cycles>>
IndexedTiming(inst) ==
    TotalCycles =
        inst[3] + (IF /\ inst[2] \in {"ABX", "ABY", "IZY"}
                      /\ inst[1] \in ReadInstructions
                      /\ PageCrossed(inst[2])
                   THEN 1 ELSE 0)

\* C18: an instruction takes its base cycles, and one more exactly when it
\* is a read instruction in mode ABX, ABY or IZY whose indexed address lies
\* in another page than the base address; stores and read-modify-write
\* instructions take their base cycles whatever the index
C18_PageCrossPenalty ==
    [][\A op \in 0 .. 255 :
          IsExec(op) /\ op \notin BranchOpcodes
              => IndexedTiming(opcodeLUT[op + 1])]_vars

\* LDA ($10),Y with the word $02F0 at $10 and Y = $10 has read $0300 and has
\* been counted down to its end: six cycles after the seven of the reset
\* and the fourteen of the instructions before it
C18_Witness ==
    /\ nes.cpu.opcode = 177
    /\ nes.cpu.cycles = 0
    /\ nes.cpu.addr = 768
    /\ nes.cpu.r_Y = 16
    /\ nes.cpu.cyclesCounter = mark.cycles + 27

\* the operand of the JMP (ptr) at the PC of nes
IndirectPointer == ByteAt(nes.cpu.r_PC + 2) * 256 + ByteAt(nes.cpu.r_PC + 1)

\* where the high byte of the target of JMP (ptr) is read
IndirectHigh(ptr) ==
    IF ptr % 256 = 255 THEN ptr - 255 ELSE U16(ptr + 1)

\* C19: JMP (ptr) reads the low byte of its target at ptr and the high byte
\* at ptr & $FF00 when the low byte of ptr is $FF, at ptr + 1 otherwise
C19_JmpIndirect ==
    [][IsExec(108) =>
          nes'.cpu.r_PC = ByteAt(IndirectHigh(IndirectPointer)) * 256
                          + ByteAt(IndirectPointer)]_vars

\* JMP ($81FF) has jumped to $9040: $40 from $81FF, $90 from $8100, and not
\* the $A0 of $8200
C19_Witness ==
    /\ nes.cpu.opcode = 108
    /\ nes.cpu.r_PC = 36928
    /\ nes.gpak.prgRom[511] = 64
    /\ nes.gpak.prgRom[512] = 160

\* the value of byte b read as a signed 8-bit number
Signed(b) == IF b >= 128 THEN b - 256 ELSE b

\* nes' holds the sum of accumulator a, operand m and carry c, and its flags
AdcResult(a, m, c) ==
    /\ nes'.cpu.r_A = (a + m + c) % 256
    /\ Bit(nes'.cpu.r_status, C) = (IF a + m + c > 255 THEN 1 ELSE 0)
    /\ Bit(nes'.cpu.r_status, Z) = (IF nes'.cpu.r_A = 0 THEN 1 ELSE 0)
    /\ Bit(nes'.cpu.r_status, N) = Bit(nes'.cpu.r_A, 7)
    /\ Bit(nes'.cpu.r_status, V) =
           (IF Signed(a) + Signed(m) + c \in -128 .. 127 THEN 0 ELSE 1)

\* C20: ADC leaves A' = (A + M + c) mod 256, C' = (A + M + c > 255),
\* Z' = (A' = 0), N' = bit 7 of A' and V' = 1 exactly when the signed sum of
\* A and M plus c lies outside -128 .. 127; SBC with operand M leaves what
\* ADC with operand 255 - M leaves
C20_AdcSbc ==
    [][/\ IsExec(105) =>
              AdcResult(nes.cpu.r_A, ByteAt(nes.cpu.r_PC + 1),
                        Bit(nes.cpu.r_status, C))
       /\ IsExec(233) =>
              AdcResult(nes.cpu.r_A, 255 - ByteAt(nes.cpu.r_PC + 1),
                        Bit(nes.cpu.r_status, C))]_vars

\* ADC #$00 with A = $7F and the carry set has left $80 with V set, C clear
C20_Witness ==
    /\ nes.cpu.opcode = 105
    /\ nes.cpu.fetched = 0
    /\ mark.was.r_A = 127
    /\ Bit(mark.was.r_status, C) = 1
    /\ nes.cpu.r_A = 128
    /\ Bit(nes.cpu.r_status, V) = 1
    /\ Bit(nes.cpu.r_status, C) = 0

\* the accumulator and the operand of the round-trip program of nes, and
\* the state its SBC has left
RoundTripA == ByteAt(32769)

RoundTripM == ByteAt(32771)

RoundTripDone ==
    /\ nes.cpu.instructionsCounter = 4
    /\ nes.cpu.opcode = 233
    /\ mark.was.opcode = 56
    /\ Bit(mark.was.r_status, C) = 1

\* C21: ADC M with the carry clear, the carry set, then SBC M return the
\* accumulator to its value A, with V = 0 and C = 1 after the SBC
C21_RoundTrip ==
    RoundTripDone =>
        /\ nes.cpu.r_A = RoundTripA
        /\ Bit(nes.cpu.r_status, V) = 0
        /\ Bit(nes.cpu.r_status, C) = 1

\* C21 as the code has it: the accumulator returns to A; after the SBC, C is
\* set exactly when A + M did not exceed 255 and V is set exactly when the
\* signed sum of A and M lies outside -128 .. 127
C21_RoundTripFlags ==
    RoundTripDone =>
        /\ nes.cpu.r_A = RoundTripA
        /\ Bit(nes.cpu.r_status, C)
               = (IF RoundTripA + RoundTripM <= 255 THEN 1 ELSE 0)
        /\ Bit(nes.cpu.r_status, V)
               = (IF Signed(RoundTripA) + Signed(RoundTripM) \in -128 .. 127
                  THEN 0 ELSE 1)

\* $FF + $01 and back: the SBC has borrowed, and $FF is in A again
C21_Witness ==
    /\ RoundTripDone
    /\ RoundTripA = 255
    /\ RoundTripM = 1
    /\ mark.was.r_A = 0
    /\ nes.cpu.r_A = 255
    /\ Bit(nes.cpu.r_status, C) = 0

\* the host call this step makes, and its arguments
IsBusWrite == call' = "cpuBusWrite"

IsBusRead == call' = "cpuBusRead"

BusAddr == mark'.addr

BusData == mark'.data

BusRet == mark'.ret

RamCell(s, c) == RamRead(s.ram, RAM_SIZE, c)

\* the cells some write has reached before or in this step; every other
\* cell holds the 0 it was initialised to, before and after
RamCellsWritten == DOMAIN nes.ram \cup DOMAIN nes'.ram

\* C22: a byte written to a RAM address is read at each of the four mirrors
\* of that address, a read that follows the write returns it, and no RAM
\* cell other than the one addressed changes
C22_RamMirroring ==
    [][/\ (IsBusWrite /\ BusAddr <= CPU_RAM_END) =>
              /\ \A n \in 0 .. 3 :
                     CpuBusRead(nes', (BusAddr % 2048) + 2048 * n).v = BusData
              /\ \A c \in RamCellsWritten \ {BusAddr % 2048} :
                     RamCell(nes', c) = RamCell(nes, c)
       /\ (IsBusRead /\ BusAddr <= CPU_RAM_END /\ call = "cpuBusWrite"
           /\ mark.addr <= CPU_RAM_END
           /\ mark.addr % 2048 = BusAddr % 2048) =>
              BusRet = mark.data]_vars

\* $81 written through one mirror of cell 1 has been read at $1801
C22_Witness ==
    /\ call = "cpuBusRead"
    /\ prevCall = "cpuBusWrite"
    /\ mark.addr = 6145
    /\ mark.ret = 129
    /\ RamCell(nes, 1) = 129
    /\ DOMAIN nes.ram = {1}

\* C23: an access to an address of $2000..$3FFF has the effect and the
\* result of the same access to $2000 + (address & 7)
C23_PpuRegisterMirroring ==
    [][/\ (IsBusWrite /\ BusAddr >= CPU_PPU_START /\ BusAddr <= CPU_PPU_END)
              => nes' = CpuBusWrite(nes, CPU_PPU_START + (BusAddr % 8), BusData)
       /\ (IsBusRead /\ BusAddr >= CPU_PPU_START /\ BusAddr <= CPU_PPU_END)
              => /\ nes' = CpuBusRead(nes, CPU_PPU_START + (BusAddr % 8)).s
                 /\ BusRet = CpuBusRead(nes, CPU_PPU_START + (BusAddr % 8)).v
      ]_vars

\* the PRG-ROM byte at an offset
PrgByte(s, o) == IF o \in DOMAIN s.gpak.prgRom THEN s.gpak.prgRom[o] ELSE 0

\* the offset the claim gives an address
PrgOffset(s, a) == IF s.gpak.nPrgRomBanks = 1 THEN a % 16384 ELSE a % 32768

\* C24: a read of an address of $4020..$FFFF returns the PRG-ROM byte at
\* the address masked with $3FFF (one bank) or $7FFF
C24_PrgMapping ==
    [][(IsBusRead /\ BusAddr >= 16416) =>
           BusRet = PrgByte(nes, PrgOffset(nes, BusAddr))]_vars

\* C24 as the code has it: the masked PRG-ROM byte is returned for
\* $8000..$FFFF; a read of $4020..$7FFF returns 0 and changes nothing
C24_PrgMappingFrom8000 ==
    [][/\ (IsBusRead /\ BusAddr >= CPU_CARTRIDGE_START) =>
              /\ BusRet = PrgByte(nes, PrgOffset(nes, BusAddr))
              /\ nes' = nes
       /\ (IsBusRead /\ BusAddr >= 16416 /\ BusAddr < CPU_CARTRIDGE_START) =>
              /\ BusRet = 0
              /\ nes' = nes]_vars

\* $C000 of a cartridge of one bank has returned the first byte of the bank
C24_Witness ==
    /\ call = "cpuBusRead"
    /\ mark.addr = 49152
    /\ nes.gpak.nPrgRomBanks = 1
    /\ PrgByte(nes, 0) = 16
    /\ mark.ret = 16

\* C25: a write to $8000..$FFFF changes nothing and ends nothing
C25_RomWriteDropped ==
    [][(IsBusWrite /\ BusAddr >= CPU_CARTRIDGE_START) => nes' = nes]_vars

IsPpuWrite == call' = "ppuBusWrite"

InPalette(a) == a >= PPU_PALETTE_START /\ a <= PPU_PALETTE_END

InNameTable(a) == a >= PPU_NAME_TABLE_START /\ a <= PPU_NAME_TABLE_END

\* the cell of the 32-byte store a palette address stands for: its low 5
\* bits, $10/$14/$18/$1C standing for $00/$04/$08/$0C
PaletteFold(a) ==
    IF (a % 32) \in {16, 20, 24, 28} THEN (a % 32) - 16 ELSE a % 32

\* the second and the last of the eight 32-byte images of the palette in
\* $3F00..$3FFF
PaletteImages == {16128 + 32 * j + i : j \in {1, 7}, i \in 0 .. 31}

\* C26: $3F10/$3F14/$3F18/$3F1C always read as $3F00/$3F04/$3F08/$3F0C and
\* an address of $3F00..$3FFF reads as its low 5 bits; a byte written to a
\* palette address is read at every address that folds onto the same cell,
\* and at no other
C26_PaletteAliasing ==
    /\ [](/\ \A x \in {0, 4, 8, 12} :
                  PpuBusRead(nes, 16144 + x) = PpuBusRead(nes, 16128 + x)
           /\ \A a \in PaletteImages :
                  PpuBusRead(nes, a) = PpuBusRead(nes, 16128 + (a % 32)))
    /\ [][(IsPpuWrite /\ InPalette(BusAddr)) =>
              \A a \in 16128 .. 16159 :
                  PpuBusRead(nes', a)
                      = (IF PaletteFold(a) = PaletteFold(BusAddr)
                         THEN BusData ELSE PpuBusRead(nes, a))]_vars

\* $2A written to $3F10 is read at $3F00
C26_Witness ==
    /\ call = "ppuBusWrite"
    /\ mark.addr = 16144
    /\ mark.data = 42
    /\ PpuBusRead(nes, 16128) = 42
    /\ PpuBusRead(nes, 16129) = 129

\* the offsets of the nametable bytes written so far, with the first and
\* the last offset; a byte at any other offset still reads 0 in all four
\* nametables
NameTableOffsets(s) == {c % 1024 : c \in DOMAIN s.vram} \cup {0, 1023}

\* the pair of merged nametables an address belongs to
NameTablePair(s, a) ==
    IF s.mirroring = VERTICAL THEN Bit(a, 10) ELSE Bit(a, 11)

\* C27: under vertical mirroring $2000+k reads as $2800+k and $2400+k as
\* $2C00+k, under horizontal mirroring $2000+k as $2400+k and $2800+k as
\* $2C00+k; a write into one pair changes no byte read from the other
C27_NametableMirroring ==
    /\ [](\A k \in NameTableOffsets(nes) :
              IF nes.mirroring = VERTICAL
              THEN /\ PpuBusRead(nes, 8192 + k) = PpuBusRead(nes, 10240 + k)
                   /\ PpuBusRead(nes, 9216 + k) = PpuBusRead(nes, 11264 + k)
              ELSE /\ PpuBusRead(nes, 8192 + k) = PpuBusRead(nes, 9216 + k)
                   /\ PpuBusRead(nes, 10240 + k) = PpuBusRead(nes, 11264 + k))
    /\ [][(IsPpuWrite /\ InNameTable(BusAddr)) =>
              \A k \in NameTableOffsets(nes'), q \in 0 .. 3 :
                  NameTablePair(nes, 8192 + 1024 * q + k)
                      # NameTablePair(nes, BusAddr)
                  => PpuBusRead(nes', 8192 + 1024 * q + k)
                         = PpuBusRead(nes, 8192 + 1024 * q + k)]_vars

\* vertical mirroring: $81 written to $2BFF is read at $23FF, and the $2A
\* written before to $2400 is still read at $2C00
C27_Witness ==
    /\ call = "ppuBusWrite"
    /\ nes.mirroring = VERTICAL
    /\ mark.addr = 11263
    /\ mark.data = 129
    /\ PpuBusRead(nes, 9215) = 129
    /\ PpuBusRead(nes, 10239) = 0
    /\ PpuBusRead(nes, 11264) = 42
    /\ PpuBusRead(nes, 9216) = 42

IsStatusRead == IsBusRead /\ BusAddr = CPU_PPU_START + 2

\* C28: a read of $2002 returns the three high bits of PPUSTATUS and the five
\* low bits of the read buffer as they were before the read, and leaves
\* VBlank and the write toggle clear; a second read with no tick in between
\* returns VBlank clear
C28_StatusRead ==
    [][IsStatusRead =>
           /\ BusRet = (nes.ppu.r_PPUSTATUS \div 32) * 32
                       + (nes.ppu.dataBuffer % 32)
           /\ Bit(nes'.ppu.r_PPUSTATUS, VerticalBlanking) = 0
           /\ ~nes'.ppu.r_writeToggle
           /\ (call = "cpuBusRead" => Bit(BusRet, 7) = 0)]_vars

\* VBlank raised, $5F in the read buffer and the toggle set: the read has
\* returned $9F and cleared VBlank and the toggle
C28_Witness ==
    /\ call = "cpuBusRead"
    /\ prevCall = "cycle"
    /\ mark.addr = CPU_PPU_START + 2
    /\ mark.ret = 159
    /\ nes.ppu.dataBuffer = 95
    /\ nes.cpu.r_A = 63
    /\ Bit(nes.ppu.r_PPUSTATUS, VerticalBlanking) = 0
    /\ ~nes.ppu.r_writeToggle

IsAddressWrite == IsBusWrite /\ BusAddr = CPU_PPU_START + 6

IsDataRead == IsBusRead /\ BusAddr = CPU_PPU_START + 7

\* the call before this step has written the first byte of an address
AfterFirstWrite ==
    /\ call = "cpuBusWrite"
    /\ mark.addr = CPU_PPU_START + 6
    /\ nes.ppu.r_writeToggle

\* C29: with w = 0 a write to $2006 changes only the latch t (bits 8..13
\* from the byte, bits 14 and 15 clear, the low byte kept) and w; the write
\* after it leaves v = ((hi & $3F) << 8) | lo and w = 0
C29_AddressProtocol ==
    [][/\ (IsAddressWrite /\ ~nes.ppu.r_writeToggle) =>
              /\ nes' = [nes EXCEPT !.ppu.r_TMPADDR = nes'.ppu.r_TMPADDR,
                                    !.ppu.r_writeToggle = TRUE]
              /\ nes'.ppu.r_TMPADDR % 256 = nes.ppu.r_TMPADDR % 256
              /\ nes'.ppu.r_TMPADDR \div 256 = BusData % 64
              /\ nes'.ppu.r_PPUADDR = nes.ppu.r_PPUADDR
       /\ (IsAddressWrite /\ AfterFirstWrite) =>
              /\ nes'.ppu.r_PPUADDR = (mark.data % 64) * 256 + BusData
              /\ ~nes'.ppu.r_writeToggle]_vars

\* $20 or $E0, then $20 written to $2006: v = $2020 and the toggle is clear
C29_Witness ==
    /\ call = "cpuBusWrite"
    /\ prevCall = "cpuBusWrite"
    /\ mark.addr = CPU_PPU_START + 6
    /\ mark.data = 32
    /\ mark.busCalls = 2
    /\ nes.ppu.r_TMPADDR = 8224
    /\ nes.ppu.r_PPUADDR = 8224
    /\ ~nes.ppu.r_writeToggle

\* C30: a read of $2007 at an address below the palette returns the stale
\* buffer and refills it with the byte at v, so that the read after a read
\* at a nametable address, with increment 1, returns the byte stored at
\* that address; at a palette address the read returns the byte stored
\* there at once
C30_BufferedRead ==
    [][IsDataRead =>
           /\ nes.ppu.r_PPUADDR < PPU_PALETTE_START =>
                  /\ BusRet = nes.ppu.dataBuffer
                  /\ nes'.ppu.dataBuffer = PpuBusRead(nes, nes.ppu.r_PPUADDR)
           /\ nes.ppu.r_PPUADDR >= PPU_PALETTE_START =>
                  BusRet = PpuBusRead(nes, nes.ppu.r_PPUADDR)
           /\ nes'.ppu.r_PPUADDR = U16(nes.ppu.r_PPUADDR + AddrIncrement(nes))
           /\ (/\ call = "cpuBusRead"
               /\ mark.addr = CPU_PPU_START + 7
               /\ AddrIncrement(nes) = 1
               /\ InNameTable(nes.ppu.r_PPUADDR - 1)) =>
                  BusRet = PpuBusRead(nes, nes.ppu.r_PPUADDR - 1)]_vars

\* $5A stored at $2020, v set to $2020, $2007 read twice: the second read
\* has returned $5A
C30_Witness ==
    /\ call = "cpuBusRead"
    /\ prevCall = "cpuBusRead"
    /\ mark.addr = CPU_PPU_START + 7
    /\ mark.busCalls = 5
    /\ mark.ret = 90
    /\ PpuBusRead(nes, 8224) = 90
    /\ nes.ppu.r_PPUADDR = 8226
    /\ nes.ppu.dataBuffer = 0

\* the step fetches the opcode at the PC nes holds
IsFetch == nes'.cpu.instructionsCounter = nes.cpu.instructionsCounter + 1

Illegal(op) == opcodeLUT[op + 1][1] = "XXX"

\* C31: fetching an opcode whose table entry is XXX ends the emulator with
\* a report of the opcode and of the program counter, which has moved past
\* the opcode; nothing changes after that; every other opcode returns
C31_IllegalOpcodeFatal ==
    [][/\ (IsFetch /\ Illegal(nes'.cpu.opcode)) =>
              /\ nes'.halted
              /\ nes'.report = [opcode |-> ByteAt(nes.cpu.r_PC),
                                pc |-> U16(nes.cpu.r_PC + 1)]
       /\ (IsFetch /\ ~Illegal(nes'.cpu.opcode)) =>
              /\ ~nes'.halted
              /\ nes'.report = <<>>
       /\ ~nes.halted]_vars

\* the illegal opcode $9C fetched at $8000 has ended the emulator
C31_Witness ==
    /\ nes.halted
    /\ call = "step"
    /\ nes.report = [opcode |-> 156, pc |-> 32769]
    /\ nes.cpu.instructionsCounter = 1
    /\ mark.steps = 1

\* the input of the even/odd program of nes, and the end of the host's loop
EvenOddInput == ByteAt(32774)

EmulateDone == mark.steps > 0 /\ ~IsRunning(nes)

\* C32: the loop around step() ends with opcode $00 fetched, and then RAM
\* byte $0001 is $02 for an even input and $01 for an odd one
C32_EvenOdd ==
    /\ <>EmulateDone
    /\ [](EmulateDone =>
              RamCell(nes, 1) = (IF EvenOddInput % 2 = 0 THEN 2 ELSE 1))

\* input 4: the loop has ended after 8 steps with $02 at $0001
C32_Witness ==
    /\ EmulateDone
    /\ EvenOddInput = 4
    /\ RamCell(nes, 1) = 2
    /\ RamCell(nes, 0) = 1
    /\ mark.steps = 8
    /\ nes.cpu.r_A = 2

IsDataWrite == IsBusWrite /\ BusAddr = CPU_PPU_START + 7

\* what a data access leaves of v, t and w: v advanced by the increment PPUCTRL
\* selected before the access, the latch and the toggle as they were
DataAdvance ==
    /\ nes'.ppu.r_PPUADDR = U16(nes.ppu.r_PPUADDR + AddrIncrement(nes))
    /\ AddrIncrement(nes) = (IF (nes.ppu.r_PPUCTRL \div 4) % 2 = 1 THEN 32 ELSE 1)
    /\ nes'.ppu.r_TMPADDR = nes.ppu.r_TMPADDR
    /\ nes'.ppu.r_writeToggle = nes.ppu.r_writeToggle

\* a write to $2007 that returns: the byte is read back at the v of before
\* the write where v names a nametable or a palette cell
DataWriteStores ==
    /\ (InNameTable(nes.ppu.r_PPUADDR) \/ InPalette(nes.ppu.r_PPUADDR)) =>
           PpuBusRead(nes', nes.ppu.r_PPUADDR) = BusData
    /\ DataAdvance

\* C33: a write to $2007 stores the byte at v and then advances v by 1 or by
\* 32 as PPUCTRL.IncrementMode says, a read of $2007 advances v by the same
\* amount, and neither changes t or w
C33_DataIncrement ==
    [][/\ IsDataWrite => (~nes'.halted /\ DataWriteStores)
       /\ IsDataRead => DataAdvance]_vars

\* the same of every write to $2007 that returns
C33_DataIncrementReturned ==
    [][/\ (IsDataWrite /\ ~nes'.halted) => DataWriteStores
       /\ IsDataRead => DataAdvance]_vars

\* increment 32 selected and v = $2020: $3C written to $2007 is at $2020 and
\* v is $2040
C33_Witness ==
    /\ call = "cpuBusWrite"
    /\ mark.addr = CPU_PPU_START + 7
    /\ nes.ppu.r_PPUADDR = 8256
    /\ Bit(nes.ppu.r_PPUCTRL, IncrementMode) = 1
    /\ PpuBusRead(nes, 8224) = 60
    /\ ~nes.halted

\* the step pushes n bytes: SP drops by n modulo 256 and no RAM cell changes
\* but the n slots of page 1 from SP downwards
Pushes(n) ==
    /\ nes'.cpu.r_SP = U8(nes.cpu.r_SP - n)
    /\ \A c \in RamCellsWritten :
           c \notin {STACK_PAGE + U8(nes.cpu.r_SP - k) : k \in 0 .. n - 1} =>
               RamCell(nes', c) = RamCell(nes, c)

\* the step pulls n bytes: SP rises by n modulo 256 and RAM is as it was
Pulls(n) ==
    /\ nes'.cpu.r_SP = U8(nes.cpu.r_SP + n)
    /\ \A c \in RamCellsWritten : RamCell(nes', c) = RamCell(nes, c)

\* C34: every push writes the slot $0100 + SP and then decrements SP, every
\* pull increments SP and then reads the slot $0100 + SP, both modulo 256, so
\* that no step of PHA, PHP, PLA, PLP, JSR, RTS, RTI, BRK, irq() or nmi()
\* touches a RAM cell outside $0100..$01FF
C34_StackConfinement ==
    [][/\ IsExec(72) => (Pushes(1) /\ StackAt(nes', nes.cpu.r_SP) = nes.cpu.r_A)
       /\ IsExec(8) =>
              /\ Pushes(1)
              /\ SameFlags(StackAt(nes', nes.cpu.r_SP), nes.cpu.r_status)
       /\ IsExec(104) =>
              (Pulls(1) /\ nes'.cpu.r_A = StackAt(nes, nes.cpu.r_SP + 1))
       /\ IsExec(40) =>
              /\ Pulls(1)
              /\ SameFlags(nes'.cpu.r_status, StackAt(nes, nes.cpu.r_SP + 1))
       /\ IsExec(32) =>
              /\ Pushes(2)
              /\ StackAt(nes', nes.cpu.r_SP) * 256
                     + StackAt(nes', nes.cpu.r_SP - 1) + 1 = nes.cpu.r_PC + 3
       /\ IsExec(96) =>
              /\ Pulls(2)
              /\ nes'.cpu.r_PC = U16(StackAt(nes, nes.cpu.r_SP + 2) * 256
                                     + StackAt(nes, nes.cpu.r_SP + 1) + 1)
       /\ IsExec(64) =>
              /\ Pulls(3)
              /\ nes'.cpu.r_PC = StackAt(nes, nes.cpu.r_SP + 3) * 256
                                 + StackAt(nes, nes.cpu.r_SP + 2)
              /\ SameFlags(nes'.cpu.r_status, StackAt(nes, nes.cpu.r_SP + 1))
       /\ IsExec(0) => Pushes(3)
       /\ (IsIrqCall /\ Bit(nes.cpu.r_status, I) = 0) => Pushes(3)
       /\ IsNmiCall => Pushes(3)
       /\ \A c \in RamCellsWritten :
              (c < STACK_PAGE \/ c >= STACK_PAGE + 256) =>
                  RamCell(nes', c) = RamCell(nes, c)]_vars

\* PHA with SP = $00: the byte is at $0100, SP is $FF, and $00FF and $0200
\* hold the 0 they were initialised to
C34_Witness ==
    /\ call = "step"
    /\ nes.cpu.opcode = 72
    /\ mark.was.r_SP = 0
    /\ nes.cpu.r_SP = 255
    /\ StackAt(nes, 0) = 195
    /\ RamCell(nes, 255) = 0
    /\ RamCell(nes, 512) = 0
    /\ DOMAIN nes.ram = {STACK_PAGE}

\* the step executes a store instruction whose effective address is $2007
IsPpuDataStore ==
    /\ \E op \in StoreOpcodes : IsExec(op)
    /\ nes'.cpu.addr = CPU_PPU_START + 7

\* the byte the store instruction fetched in this step writes
StoreValue ==
    CASE nes'.cpu.opcode = 142 -> nes.cpu.r_X
      [] nes'.cpu.opcode = 140 -> nes.cpu.r_Y
      [] nes'.cpu.opcode = 143 -> BitAnd(nes.cpu.r_A, nes.cpu.r_X)
      [] OTHER -> nes.cpu.r_A

\* C35: a store instruction aimed at $2007 is one PPU data access: the byte
\* lands at the v of before the instruction, v advances by one increment and
\* the read buffer is as it was
C35_StoreOneAccess ==
    [][IsPpuDataStore =>
           /\ PpuBusRead(nes', nes.ppu.r_PPUADDR) = StoreValue
           /\ nes'.ppu.r_PPUADDR
                  = U16(nes.ppu.r_PPUADDR + AddrIncrement(nes))
           /\ nes'.ppu.dataBuffer = nes.ppu.dataBuffer]_vars

\* what the store does: the addressing mode reads $2007 before the
\* instruction writes it, so that the byte lands one increment above v, v
\* advances by two increments and the buffer is refilled from the old v
C35_StoreReadsFirst ==
    [][IsPpuDataStore =>
           /\ PpuBusRead(nes', U16(nes.ppu.r_PPUADDR + AddrIncrement(nes)))
                  = StoreValue
           /\ PpuBusRead(nes', nes.ppu.r_PPUADDR)
                  = PpuBusRead(nes, nes.ppu.r_PPUADDR)
           /\ nes'.ppu.r_PPUADDR
                  = U16(nes.ppu.r_PPUADDR + 2 * AddrIncrement(nes))
           /\ nes'.cpu.fetched = nes.ppu.dataBuffer
           /\ nes'.ppu.dataBuffer = PpuBusRead(nes, nes.ppu.r_PPUADDR)]_vars

\* STA $2007 with v = $2020 and increment 1: $A5 is at $2021, v is $2022
C35_StoreSeen ==
    /\ call = "step"
    /\ nes.cpu.opcode = 141
    /\ nes.cpu.addr = CPU_PPU_START + 7
    /\ nes.ppu.r_PPUADDR = 8226
    /\ PpuBusRead(nes, 8225) = 165
    /\ PpuBusRead(nes, 8224) = 0

\* the step executes the RTI of a handler right after the interrupt that
\* entered it was taken, the stack being as the interrupt left it
IsReturnFromInterrupt ==
    /\ IsExec(64)
    /\ \/ call = "nmi"
       \/ call = "irq" /\ Bit(mark.was.r_status, I) = 0

\* C36: nmi(), or irq() with I = 0, followed by RTI restores PC, SP and the
\* flags C, Z, I, D, V, N to what they were right before the interrupt
C36_InterruptRoundTrip ==
    [][IsReturnFromInterrupt =>
           /\ nes'.cpu.r_PC = mark.was.r_PC
           /\ nes'.cpu.r_SP = mark.was.r_SP
           /\ SameFlags(nes'.cpu.r_status, mark.was.r_status)]_vars

\* what the round trip does: PC, SP and the flags C, Z, D, V, N are restored
\* and I comes back set, whatever it was
C36_RoundTripSetsI ==
    [][IsReturnFromInterrupt =>
           /\ nes'.cpu.r_PC = mark.was.r_PC
           /\ nes'.cpu.r_SP = mark.was.r_SP
           /\ \A k \in {C, Z, D, V, N} :
                  Bit(nes'.cpu.r_status, k) = Bit(mark.was.r_status, k)
           /\ Bit(nes'.cpu.r_status, I) = 1]_vars

\* irq() right after construction (I = 0) and the RTI of its handler: PC and
\* SP are back and I is set
C36_ReturnSeen ==
    /\ call = "step"
    /\ prevCall = "irq"
    /\ nes.cpu.opcode = 64
    /\ nes.cpu.r_PC = 32768
    /\ nes.cpu.r_SP = 253
    /\ Bit(nes.cpu.r_status, I) = 1
    /\ mark.interrupts = 1

\* the step writes the second byte of an address pair (hi, lo) whose first
\* byte was written after an odd number of scroll and address writes, no
\* read of $2002 in between
IsPairAfterOdd ==
    /\ IsAddressWrite
    /\ call = "cpuBusWrite"
    /\ mark.addr = CPU_PPU_START + 6
    /\ mark.toggles % 2 = 0
    /\ mark'.toggles = mark.toggles + 1

\* the address the pair (hi, lo) was meant to set: ((hi & $3F) << 8) | lo
PairAddress == (mark.data % 64) * 256 + BusData

\* the toggle is the parity of the scroll and address writes since the last
\* read of $2002
ToggleIsParity ==
    nes.ppu.r_writeToggle = (mark.toggles % 2 = 1)

\* C37 as stated: w is that parity in every state, and an address pair
\* issued after an odd number of such writes does not set v to
\* ((hi & $3F) << 8) | lo
C37_SharedToggleNeverSets ==
    /\ []ToggleIsParity
    /\ [][IsPairAfterOdd => nes'.ppu.r_PPUADDR # PairAddress]_vars

\* C37: w is that parity in every state, and an address pair issued after
\* an odd number of such writes has its bytes taken in the wrong roles: hi
\* becomes the low byte of v, under the high byte t had, lo goes to the high
\* byte of t only, and w is left set; v is ((hi & $3F) << 8) | lo only if
\* hi = lo and bits 8..13 of t held hi & $3F before
C37_SharedToggle ==
    /\ []ToggleIsParity
    /\ [][IsPairAfterOdd =>
              /\ nes'.ppu.r_PPUADDR = nes.ppu.r_PPUADDR
              /\ nes.ppu.r_PPUADDR = nes.ppu.r_TMPADDR
              /\ nes.ppu.r_PPUADDR % 256 = mark.data
              /\ nes'.ppu.r_TMPADDR = (BusData % 64) * 256 + mark.data
              /\ nes'.ppu.r_writeToggle
              /\ (nes'.ppu.r_PPUADDR = PairAddress) <=>
                     /\ BusData = mark.data
                     /\ nes.ppu.r_PPUADDR \div 256 = mark.data % 64]_vars

\* one write to $2005, then $20 and $3F written to $2006: v is $0020, not
\* $203F, t is $3F20 and w is set
C37_Witness ==
    /\ call = "cpuBusWrite"
    /\ prevCall = "cpuBusWrite"
    /\ mark.addr = CPU_PPU_START + 6
    /\ mark.data = 63
    /\ mark.toggles = 3
    /\ mark.busCalls = 3
    /\ nes.ppu.r_PPUADDR = 32
    /\ nes.ppu.r_TMPADDR = 16160
    /\ nes.ppu.r_writeToggle
    /\ nes.ppu.r_coarseX # 0

\* the step is a cycle() in which cpu.nmi() is invoked
IsNmiDelivery ==
    IsCycle /\ \E k \in DOMAIN nes'.trace : nes'.trace[k] = "nmi"

\* the step is a write of the host to $2000
IsControlWrite == IsBusWrite /\ BusAddr = CPU_PPU_START

C38_SecondFrame ==
    /\ call = "cycle"
    /\ nes.ppuTicks = 171523
    /\ nes.ppu.scanline = 241 /\ nes.ppu.cycles = 0
    /\ mark.busCalls = 1
    /\ nes.nmiEntry # -1
    /\ nes.trace[Len(nes.trace) - 1] = "nmi"

\* the step is a call of reset()
IsResetCall == call' = "reset" /\ resets' = resets + 1

\* C39: reset() sets the master clock counter to 0, clears the pending NMI
\* and loads the CPU registers and its remaining-cycle counter; the PPU, CPU
\* RAM, VRAM, palette RAM and the CPU's lifetime counters are as before
C39_ResetFrame ==
    [][IsResetCall =>
           /\ nes'.clockCounter = 0
           /\ ~nes'.pendingNmi
           /\ nes'.cpu = [nes.cpu EXCEPT !.r_status = 0, !.r_A = 0, !.r_X = 0,
                                         !.r_Y = 0, !.r_SP = 253,
                                         !.r_PC = Vector(65532),
                                         !.cycles = 7]
           /\ nes'.cpu.cyclesCounter = nes.cpu.cyclesCounter
           /\ nes'.cpu.instructionsCounter = nes.cpu.instructionsCounter
           /\ nes'.ppu = nes.ppu
           /\ nes'.ram = nes.ram
           /\ nes'.vram = nes.vram
           /\ nes'.paletteRam = nes.paletteRam
           /\ nes'.gpak = nes.gpak
           /\ nes' = [nes EXCEPT !.clockCounter = 0, !.pendingNmi = FALSE,
                                 !.cpu = nes'.cpu]]_vars

\* reset() in the VBlank of the first frame, the program and the NMI handler
\* having run: the clock counter is 0 and the CPU is reset, and the PPU is at
\* scanline 241 with VBlank raised, PPUCTRL $84, PPUMASK $5A, v = $2148,
\* t = $1A28, w set and $2A in the read buffer; RAM, VRAM and palette RAM
\* hold what was written and the lifetime counters stand
C39_Witness ==
    /\ call = "reset"
    /\ nes.ppuTicks = 82190
    /\ nes.clockCounter = 0
    /\ nes.cpu.cycles = 7 /\ nes.cpu.r_PC = 32768 /\ nes.cpu.r_SP = 253
    /\ nes.cpu.r_X = 0
    /\ nes.ppu.scanline = 241
    /\ Bit(nes.ppu.r_PPUSTATUS, VerticalBlanking) = 1
    /\ nes.ppu.r_PPUCTRL = 132 /\ nes.ppu.r_PPUMASK = 90
    /\ nes.ppu.r_PPUADDR = 8520 /\ nes.ppu.r_TMPADDR = 6696
    /\ nes.ppu.r_writeToggle
    /\ nes.ppu.dataBuffer = 42
    /\ RamCell(nes, 16) = 90
    /\ PpuBusRead(nes, 8488) = 42
    /\ PpuBusRead(nes, 16128) = 21
    /\ nes.cpu.cyclesCounter > 20000
    /\ nes.cpu.instructionsCounter > 6000
    /\ nes.nmiEntry # -1

IsPadRead == call' = "controller.read" /\ pad'.calls = pad.calls + 1

IsPadSetButton == call' = "controller.setButton" /\ pad'.calls = pad.calls + 1

\* C40: after every strobe the first 8 reads return the buttons the player
\* holds (the same at the strobe and at the read), one bit per read from the
\* highest down, whatever was read before the strobe; a setButton made
\* while the port is in the reading state leaves the bits being shifted out
\* alone
C40_ControllerProtocol ==
    [][/\ (IsPadRead /\ pad.strobed /\ pad.reads < 8
           /\ pad.held = pad.latched) =>
              pad'.ret = Bit(pad.held, 7 - pad.reads)
       /\ (IsPadSetButton /\ controller.readingState[P1]) =>
              controller' = controller]_vars

\* what the controller does: there is one register, input, and no buffer
\* beside it; setButton changes it unless the port is in the reading state,
\* read returns its highest bit and shifts it left for good, write moves
\* the reading state only; so the reads after a strobe return the buttons
\* held at the strobe only while no read and no setButton in the reading
\* state has come before
C40_SingleRegister ==
    /\ [](pad.fresh => controller.input[P1] = pad.held)
    /\ [][/\ IsPadRead =>
                 /\ pad'.ret = Bit(controller.input[P1], 7)
                 /\ controller'.input[P1] = U8(controller.input[P1] * 2)
                 /\ controller'.readingState = controller.readingState
          /\ (IsPadSetButton /\ controller.readingState[P1]) =>
                 controller' = controller
          /\ (call' = "controller.write" /\ pad'.calls = pad.calls + 1) =>
                 controller'.input = controller.input
          /\ (IsPadRead /\ pad.strobed /\ pad.reads < 8
              /\ controller.input[P1] = U8(pad.latched * Pow2(pad.reads))) =>
                 pad'.ret = Bit(pad.latched, 7 - pad.reads)]_vars

\* A pressed, the port strobed and read 8 times, released from the reading
\* state and strobed again: A is still held and the read returns 0
C40_HeldButtonLost ==
    /\ call = "controller.read"
    /\ pad.held = ButtonA
    /\ pad.latched = ButtonA
    /\ pad.reads = 1
    /\ pad.calls = 12
    /\ pad.ret = 0
    /\ controller.readingState[P1]
    /\ controller.input[P1] = 0

====
